---- MODULE Spec2Model ----
(***************************************************************************)
(* apireception: a layer-7 API gateway.                                    *)
(*                                                                         *)
(* Fourteen specifications over one set of variables:                      *)
(*   Spec          the running gateway: the admin API mutating the stored  *)
(*                 config, the reload task publishing router and upstream  *)
(*                 map through two ArcSwap cells, and dispatcher requests  *)
(*   SpecRegistry  the left_right Registry and its RegistryOp operations   *)
(*   SpecHealth    the per-endpoint health prober (StatusRing) and the     *)
(*                 endpoint selection of an upstream that reads its cells  *)
(*   SpecDispatch  one request through GatewayService::call on a published *)
(*                 router and upstream map: find_route, the plugins of the *)
(*                 route, the forward                                      *)
(*   SpecLB        tasks inside GatewayClient::call on a LeastRequest      *)
(*                 strategy                                                *)
(*   SpecWeighted  WeightedRandom::select_endpoint on every list and draw  *)
(*   SpecLive      the admin API and the reload task alone, the reload     *)
(*                 task weakly fair once notified                          *)
(*   SpecReload    Registry::reload on a registry whose endpoint health    *)
(*                 the checker has written                                 *)
(*   SpecSelect    Route::forward_request on an upstream that has served   *)
(*                 requests: health filter, then the strategy              *)
(*   SpecAdmin     requests to the admin API behind its session middleware *)
(*   SpecForward   Fowarder::forward: the Host header and the endpoint     *)
(*   SpecProber    UpstreamChecker::start and the prober tasks it spawns,  *)
(*                 every task weakly fair                                  *)
(*   SpecDrain     connection tasks inside ConnService::call and the drain *)
(*                 of main after ctrl-c                                    *)
(*   SpecSwap      SpecLB with a reload that replaces the strategy while   *)
(*                 forwards are awaited                                    *)
(***************************************************************************)
EXTENDS Integers, Sequences, FiniteSets, TLC

VARIABLES
    config,        \* RuntimeConfig.registry: the stored config behind the RwLock
    builds,        \* heap of published (router, upstream map) pairs, one per successful build
    sd_router,     \* SharedData.router: ArcSwap cell, index into builds
    sd_upstreams,  \* SharedData.upstreams: ArcSwap cell, index into builds
    notify,        \* config_notify: the stored permit of tokio::sync::Notify
    reloader,      \* position of the reload task inside apply_config / SharedData::reload
    req,           \* dispatcher request tasks
    admin,         \* outcome of the last admin API call
    registry,      \* left_right Registry {config, router, upstreams}
    opResult,      \* outcome of the last Registry operation
    hc,            \* HealthConfig of the probed upstream
    weights,       \* weight of every endpoint of the probed upstream
    prober,        \* per endpoint: StatusRing of its prober and the outcomes probed so far
    cell,          \* per endpoint: the shared Healthiness cell
    fwd,           \* outcome of the last forward_request on the probed upstream
    connections,   \* LeastRequest.connections: in-flight counter per endpoint
    task,          \* tasks inside GatewayClient::call
    calls,         \* per endpoint: on_send_request and on_request_done calls made so far
    sel,           \* a WeightedRandom selection: endpoint list, draw, result
    fw,            \* a request inside Fowarder::forward
    sessions,      \* G_SESSION_STORE: the session ids of the admin API
    areq,          \* the last request to the admin API and its response
    old,           \* the LeastRequest counter maps of strategies a reload has replaced
    chan,          \* UpstreamChecker::start: the mpsc channel whose closing the probers await
    drain,         \* main: the drain::Signal and the position of run() around it
    conn           \* connection tasks inside ConnService::call

vars == <<config, builds, sd_router, sd_upstreams, notify, reloader, req, admin,
          registry, opResult, hc, weights, prober, cell, fwd,
          connections, task, calls, sel, fw, sessions, areq,
          old, chan, drain, conn>>

gatewayVars  == <<config, builds, sd_router, sd_upstreams, notify, reloader, req, admin>>
registryVars == <<registry, opResult>>
healthVars   == <<hc, weights, prober, cell, fwd>>
lbVars       == <<connections, task, calls, sel, fw, old>>
adminVars    == <<sessions, areq>>
lifeVars     == <<chan, drain, conn>>

----------------------------------------------------------------------------
(* Bounds *)

MaxAdmin == 2       \* calls made to the admin API
MaxRoutes == 2      \* routes the Registry router holds after an add_route, over all its lists
MaxProbes == 3      \* probe outcomes recorded per endpoint
MaxRise == 2        \* largest health_check.rise
MaxFall == 3        \* largest health_check.fall
MaxWeight == 1      \* largest endpoint weight of the probed upstream
MaxCalls == 2       \* calls each task makes through the upstream's client
MaxLBWeight == 2    \* largest endpoint weight of a list handed to WeightedRandom
MaxServed == 1      \* requests served on one connection
MaxReloads == 1     \* reloads that replace the upstream while tasks forward through it

----------------------------------------------------------------------------
(* Config documents: the route and upstream specs the provider or the      *)
(* admin API can hand in.                                                  *)

Strategies == {"random", "weighted", "least_request"}

EpA == [addr |-> "a:5000", weight |-> 1]
EpB == [addr |-> "b:5000", weight |-> 1]

(* a weighted upstream all of whose endpoints are drained *)
UpstreamDrained ==
    [id |-> "u2", name |-> "u2", strategy |-> "weighted",
     endpoints |-> << [addr |-> "a:5000", weight |-> 0], [addr |-> "b:5000", weight |-> 0] >>]

UpstreamInputs ==
    { UpstreamDrained,
      [id |-> "u1", name |-> "u1", strategy |-> "random",   endpoints |-> <<EpA>>],
      [id |-> "u2", name |-> "u2", strategy |-> "weighted", endpoints |-> <<EpA, EpB>>],
      [id |-> "u2", name |-> "u2", strategy |-> "fastest",  endpoints |-> <<EpA>>],
      [id |-> "u9", name |-> "n9", strategy |-> "random",   endpoints |-> <<EpB>>] }

MatcherTom == "Query('name','tom')"
MatcherBob == "Query('name','bob')"
MatcherBad == "Query('name'"
MatcherPathX == "Path('/hello/x')"

RouteInputs ==
    { [id |-> "r1", uris |-> <<"/hello">>, upstream_id |-> "u1",
       matcher |-> "", priority |-> 0],
      [id |-> "r2", uris |-> <<"/hello">>, upstream_id |-> "u2",
       matcher |-> MatcherTom, priority |-> 100],
      [id |-> "r2", uris |-> <<"/hello/*">>, upstream_id |-> "u1",
       matcher |-> MatcherBad, priority |-> 100],
      [id |-> "r3", uris |-> <<"/hello", "/hello/*">>, upstream_id |-> "u1",
       matcher |-> "", priority |-> 0],
      [id |-> "r3", uris |-> <<"/hello">>, upstream_id |-> "u9",
       matcher |-> "", priority |-> 50] }

InitConfig ==
    [routes |-> << [id |-> "r1", uris |-> <<"/hello">>, upstream_id |-> "u1",
                    matcher |-> "", priority |-> 0] >>,
     upstreams |-> << [id |-> "u1", name |-> "u1", strategy |-> "random",
                       endpoints |-> <<EpA>>],
                      [id |-> "u2", name |-> "u2", strategy |-> "weighted",
                       endpoints |-> <<EpA, EpB>>] >>]

(* Route documents with plugins maps, and the configs that hold them.      *)
RouteSplit ==
    [id |-> "r5", uris |-> <<"/hello">>, upstream_id |-> "u1", matcher |-> "",
     priority |-> 0,
     plugins |-> [traffic_split |->
                    [rules |-> << [matcher |-> MatcherTom, upstream_id |-> "u2"],
                                  [matcher |-> "", upstream_id |-> "ux"] >>]]]
RoutePipeline ==
    [id |-> "r6", uris |-> <<"/hello/*">>, upstream_id |-> "u1", matcher |-> "",
     priority |-> 0,
     plugins |-> [traffic_split |->
                    [rules |-> << [matcher |-> MatcherTom, upstream_id |-> "u2"] >>],
                  path_rewrite |-> [kind |-> "Static", to |-> "/v2"],
                  script |-> [deny |-> MatcherBob]]]
RouteGuarded ==
    [id |-> "r7", uris |-> <<"/hello", "/hello/*">>, upstream_id |-> "u2",
     matcher |-> "", priority |-> 10,
     plugins |-> [path_rewrite |-> [kind |-> "Keep"],
                  script |-> [deny |-> MatcherTom]]]
RouteRewriteSplit ==
    [id |-> "r8", uris |-> <<"/hello/*">>, upstream_id |-> "u1", matcher |-> "",
     priority |-> 0,
     plugins |-> [path_rewrite |-> [kind |-> "Static", to |-> "/v2"],
                  traffic_split |->
                    [rules |-> << [matcher |-> MatcherPathX, upstream_id |-> "u2"] >>]]]
UpstreamEmpty == [id |-> "u0", name |-> "u0", strategy |-> "random", endpoints |-> <<>>]

DispatchConfigs ==
    { InitConfig,
      [InitConfig EXCEPT !.routes = <<RouteSplit>>],
      [InitConfig EXCEPT !.routes = <<RouteSplit, RoutePipeline>>],
      [InitConfig EXCEPT !.routes = <<RouteGuarded>>],
      [InitConfig EXCEPT !.routes = <<RouteRewriteSplit>>],
      [InitConfig EXCEPT !.routes =
          << RoutePipeline,
             [id |-> "r2", uris |-> <<"/hello">>, upstream_id |-> "u2",
              matcher |-> MatcherTom, priority |-> 100] >>],
      [routes |-> << [id |-> "r1", uris |-> <<"/hello">>, upstream_id |-> "u0",
                      matcher |-> "", priority |-> 0],
                     [id |-> "r3", uris |-> <<"/hello/*">>, upstream_id |-> "u9",
                      matcher |-> "", priority |-> 50] >>,
       upstreams |-> << UpstreamEmpty,
                        [id |-> "u9", name |-> "n9", strategy |-> "random",
                         endpoints |-> <<EpB>>] >>] }

(* Requests: a path and a query string, the query string as its list of    *)
(* key/value pairs in the order sent.                                      *)
Paths == {"/hello", "/hello/x", "/nope"}
Queries == { <<>>, << <<"name", "tom">> >>, << <<"name", "bob">> >> }
Requests == [path : Paths, query : Queries]

----------------------------------------------------------------------------
(* Predicate matcher *)

Ok(v) == [ok |-> TRUE, val |-> v]
Err(e) == [ok |-> FALSE, err |-> e]

(* RouteMatcher::parse on the matcher strings of the config documents. *)
RouteMatcherParse(s) ==
    IF s = "" THEN Ok([kind |-> "Empty"])
    ELSE IF s = MatcherTom THEN Ok([kind |-> "Query", key |-> "name", value |-> "tom"])
    ELSE IF s = MatcherBob THEN Ok([kind |-> "Query", key |-> "name", value |-> "bob"])
    ELSE IF s = MatcherPathX THEN Ok([kind |-> "Path", path |-> "/hello/x"])
    ELSE Err("MatcherParse")

(* form_urlencoded::parse(..).collect::<HashMap>(): the last pair of a key wins. *)
RECURSIVE QueryValue(_, _, _)
QueryValue(q, key, i) ==
    IF i = 0 THEN "<absent>"
    ELSE IF q[i][1] = key THEN q[i][2]
    ELSE QueryValue(q, key, i - 1)

(* RouteMatcher::matchs *)
Matchs(m, r) ==
    CASE m.kind = "Empty" -> TRUE
      [] m.kind = "Query" -> QueryValue(r.query, m.key, Len(r.query)) = m.value
      [] m.kind = "Path" -> r.path = m.path

----------------------------------------------------------------------------
(* Plugins *)

(* TrafficSplitPlugin::new: every rule's matcher is parsed, in list order *)
RECURSIVE TrafficSplitRules(_, _, _)
TrafficSplitRules(rules, i, acc) ==
    IF i > Len(rules) THEN Ok(acc)
    ELSE LET m == RouteMatcherParse(rules[i].matcher) IN
         IF ~m.ok THEN m
         ELSE TrafficSplitRules(rules, i + 1,
                  Append(acc, [matcher |-> m.val, upstream_id |-> rules[i].upstream_id]))

(* init_plugin: the plugin of a name of the plugins map; priority is what  *)
(* Plugin::priority answers for the plugin type.                           *)
InitPlugin(name, cfg) ==
    CASE name = "path_rewrite" ->
            Ok([kind |-> "path_rewrite", priority |-> 1002, rewrite |-> cfg])
      [] name = "traffic_split" ->
            LET rules == TrafficSplitRules(cfg.rules, 1, <<>>) IN
            IF ~rules.ok THEN rules
            ELSE Ok([kind |-> "traffic_split", priority |-> 1001, rules |-> rules.val])
      [] OTHER -> Err("Unkown plugin")

(* ScriptPlugin::new. The script is held by what its on_access does: it    *)
(* answers a 403 to the requests its deny matcher matches and hands every  *)
(* other request on.                                                       *)
ScriptPluginNew(cfg) ==
    LET m == RouteMatcherParse(cfg.deny) IN
    IF ~m.ok THEN Err("script compile err")
    ELSE Ok([kind |-> "script", priority |-> 2000, deny |-> m.val])

(* PathRewritePlugin::path_rewrite *)
PathRewrite(plugin, path) ==
    CASE plugin.rewrite.kind = "Keep" -> path
      [] plugin.rewrite.kind = "Static" -> plugin.rewrite.to

(* TrafficSplitPlugin::select_upstream: the upstream of the first rule,    *)
(* in list order, whose matcher matches.                                   *)
TrafficSplitSelect(rules, request) ==
    LET hits == SelectSeq(rules, LAMBDA x : Matchs(x.matcher, request)) IN
    IF hits = <<>> THEN Err("None") ELSE Ok(Head(hits).upstream_id)

(* Plugin::on_access of the three plugin types: Ok of the context and the  *)
(* request handed on, or Err of the response that ends the request.        *)
OnAccess(plugin, ctx, request) ==
    CASE plugin.kind = "path_rewrite" ->
            Ok([ctx |-> ctx,
                req |-> [request EXCEPT !.path = PathRewrite(plugin, @)]])
      [] plugin.kind = "traffic_split" ->
            LET u == TrafficSplitSelect(plugin.rules, request) IN
            Ok([ctx |-> IF u.ok THEN [ctx EXCEPT !.upstream_id = u.val] ELSE ctx,
                req |-> request])
      [] plugin.kind = "script" ->
            IF Matchs(plugin.deny, request)
            THEN Err([status |-> 403, after |-> <<>>])
            ELSE Ok([ctx |-> ctx, req |-> request])

(* Plugin::after_forward: every plugin type hands the response on as it    *)
(* got it. after is bookkeeping: the plugins the response went through.    *)
AfterForward(plugin, ctx, resp) == [resp EXCEPT !.after = Append(@, plugin.kind)]

(* The plugins map of a route document; a document without the field has   *)
(* the empty map (serde default).                                          *)
PluginsOf(cfg) == IF "plugins" \in DOMAIN cfg THEN cfg.plugins ELSE <<>>

PluginNew(name, cfg) ==
    IF name = "script" THEN ScriptPluginNew(cfg) ELSE InitPlugin(name, cfg)

(* the plugins of built, ordered by priority descending; two plugins of a  *)
(* route are of different types and so of different priorities.            *)
RECURSIVE SortPlugins(_)
SortPlugins(built) ==
    IF built = {} THEN <<>>
    ELSE LET top == CHOOSE x \in built : \A y \in built : x.priority >= y.priority
         IN  <<top>> \o SortPlugins(built \ {top})

(* The plugin list of a route: one plugin per entry of the plugins map,    *)
(* sorted by priority descending when the route is built.                  *)
RoutePlugins(cfg) ==
    LET map == PluginsOf(cfg)
        res == { PluginNew(n, map[n]) : n \in DOMAIN map }
    IN  IF \E x \in res : ~x.ok
        THEN CHOOSE x \in res : ~x.ok
        ELSE Ok(SortPlugins({ x.val : x \in res }))

----------------------------------------------------------------------------
(* Routes and the router *)

(* Route::new: parses the matcher. seq is bookkeeping that no code reads:  *)
(* the rank of the route's insertion among the routes of the list it is in. *)
RouteNew(cfg) ==
    LET m == RouteMatcherParse(cfg.matcher)
        plugins == RoutePlugins(cfg)
    IN  IF ~m.ok THEN m
        ELSE IF ~plugins.ok THEN plugins
        ELSE Ok([id |-> cfg.id, upstream_id |-> cfg.upstream_id, matcher |-> m.val,
                 priority |-> cfg.priority, seq |-> 0, plugins |-> plugins.val])

SortedDesc(s) == \A i, j \in 1..Len(s) : i < j => s[i].priority >= s[j].priority

(* sort_unstable_by_key(|r| Reverse(r.priority)): the list ordered by       *)
(* priority descending; the order of routes of equal priority is not       *)
(* specified, so every such order is a possible outcome.                   *)
SortUnstableWrong(s) ==
    { t \in { [i \in 1..Len(s) |-> s[f[i]]] : f \in Permutations(1..Len(s)) } :
        \A i, j \in 1..Len(t) : i < j => t[i].priority <= t[j].priority }
SortUnstableByKey(s) ==
    { t \in { [i \in 1..Len(s) |-> s[f[i]]] : f \in Permutations(1..Len(s)) } :
        SortedDesc(t) }

(* router.at_or_default(uri) *)
AtOrDefault(router, uri) == IF uri \in DOMAIN router THEN router[uri] ELSE <<>>

SetAt(router, uri, list) ==
    [p \in DOMAIN router \cup {uri} |-> IF p = uri THEN list ELSE router[p]]

(* endpoint.push(route); endpoint.sort_unstable_by_key(..): every router    *)
(* the two statements can leave behind.                                    *)
PushAndSort(router, uri, route) ==
    LET endpoint == AtOrDefault(router, uri)
        pushed == Append(endpoint, [route EXCEPT !.seq = Len(endpoint) + 1])
    IN  { SetAt(router, uri, l) : l \in SortUnstableByKey(pushed) }

(* for uri in &cfg.uris { push; sort } over a set of possible routers *)
RECURSIVE PushUris(_, _, _, _)
PushUris(routers, uris, k, route) ==
    IF k > Len(uris) THEN routers
    ELSE PushUris(UNION { PushAndSort(r, uris[k], route) : r \in routers },
                  uris, k + 1, route)

EmptyRouter == [p \in {} |-> <<>>]

(* Registry::build_router: Err of the first route that fails, else the set *)
(* of routers the build can return.                                        *)
RECURSIVE BuildRouterFrom(_, _, _)
BuildRouterFrom(cfg, i, routers) ==
    IF i > Len(cfg.routes) THEN Ok(routers)
    ELSE LET r == cfg.routes[i]
             upstream_set == { cfg.upstreams[k].id : k \in 1..Len(cfg.upstreams) }
             route == RouteNew(r)
         IN  IF r.upstream_id \notin upstream_set THEN Err("UpstreamNotFound")
             ELSE IF ~route.ok THEN route
             ELSE BuildRouterFrom(cfg, i + 1, PushUris(routers, r.uris, 1, route.val))

BuildRouter(cfg) == BuildRouterFrom(cfg, 1, {EmptyRouter})

(* Upstream::new: every endpoint gets a new cell that reads healthy *)
UpstreamNew(cfg) ==
    IF cfg.strategy \notin Strategies THEN Err("UnknownLBStrategy")
    ELSE Ok([id |-> cfg.id, name |-> cfg.name, strategy |-> cfg.strategy,
             endpoints |-> cfg.endpoints,
             health |-> [i \in 1..Len(cfg.endpoints) |-> "Up"]])

EmptyUpstreams == [n \in {} |-> <<>>]

(* upstreams.insert(key, upstream) *)
MapInsert(m, key, v) == [k \in DOMAIN m \cup {key} |-> IF k = key THEN v ELSE m[k]]

(* Registry::build_upstream_map: the map is keyed by the upstream's name. *)
RECURSIVE BuildUpstreamMapFrom(_, _, _)
BuildUpstreamMapFrom(cfg, i, upstreams) ==
    IF i > Len(cfg.upstreams) THEN Ok(upstreams)
    ELSE LET u == cfg.upstreams[i]
             upstream == UpstreamNew(u)
         IN  IF ~upstream.ok THEN upstream
             ELSE BuildUpstreamMapFrom(cfg, i + 1, MapInsert(upstreams, u.name, upstream.val))

BuildUpstreamMap(cfg) == BuildUpstreamMapFrom(cfg, 1, EmptyUpstreams)

(* The pattern node of the router that a path hits (router.recognize):     *)
(* "/hello" matches exactly, "/hello/*" every path below "/hello/".        *)
PatternHits(p, path) ==
    \/ p = "/hello" /\ path = "/hello"
    \/ p = "/hello/*" /\ path = "/hello/x"

Recognize(router, path) ==
    IF \E p \in DOMAIN router : PatternHits(p, path)
    THEN Ok(router[CHOOSE p \in DOMAIN router : PatternHits(p, path)])
    ELSE Err("no match")

(* GatewayService::find_route: filter the node's routes by their matcher,  *)
(* take the first.                                                         *)
FindRouteLast(router, r) ==
    LET m == Recognize(router, r.path) IN
    IF ~m.ok THEN Err("route not found")
    ELSE LET routes == SelectSeq(m.val, LAMBDA x : Matchs(x.matcher, r)) IN
         IF routes = <<>> THEN Err("route not found") ELSE Ok(routes[Len(routes)])
FindRouteNoFilter(router, r) ==
    LET m == Recognize(router, r.path) IN
    IF ~m.ok THEN Err("route not found")
    ELSE IF m.val = <<>> THEN Err("route not found") ELSE Ok(Head(m.val))
FindRoute(router, r) ==
    LET m == Recognize(router, r.path) IN
    IF ~m.ok THEN Err("route not found")
    ELSE LET routes == SelectSeq(m.val, LAMBDA x : Matchs(x.matcher, r)) IN
         IF routes = <<>> THEN Err("route not found") ELSE Ok(Head(routes))

----------------------------------------------------------------------------
(* The running gateway: stored config, SharedData, reload task, requests   *)

(* The request tasks share nothing but the two cells they read, so one     *)
(* task stands for each of them.                                           *)
ReqIds == {"q"}

NoRoute == [id |-> "-", upstream_id |-> "-", matcher |-> [kind |-> "Empty"],
            priority |-> 0, seq |-> 0, plugins |-> <<>>]
NoRequest == [path |-> "/nope", query |-> <<>>]

(* accessed, after, upstream_id, forwards, failed and sent are bookkeeping  *)
(* of what the dispatch of the request did: the plugins whose on_access    *)
(* and after_forward ran, the key looked up in the upstream map, the       *)
(* forwards issued, whether the forward failed, and the request as it was  *)
(* forwarded.                                                              *)
ReqIdle == [pc |-> "idle", request |-> NoRequest, router |-> 0, upstreams |-> 0,
            route |-> NoRoute, status |-> 0, via |-> "-",
            accessed |-> <<>>, after |-> <<>>, upstream_id |-> "-",
            forwards |-> 0, failed |-> FALSE,
            sent |-> NoRequest]

(* http.rs: the responses the gateway makes itself *)
NotFoundResp == [status |-> 404, after |-> <<>>]
UpstreamUnavailableResp == [status |-> 502, after |-> <<>>]
BadGatewayResp == [status |-> 502, after |-> <<>>]

(* what the forward through the upstream's client can come back with: a    *)
(* response of the endpoint, or an error of the transport                  *)
ForwardOutcomes == { Ok(200), Ok(404), Err("transport error") }

(* dispatch, "do forward": the endpoint's response, bad_gateway() on Err *)
ForwardResultInternal(outcome) ==
    IF outcome.ok THEN [status |-> outcome.val, after |-> <<>>]
    ELSE [status |-> 500, after |-> <<>>]
ForwardResult(outcome) ==
    IF outcome.ok THEN [status |-> outcome.val, after |-> <<>>] ELSE BadGatewayResp

NoCtx == [upstream_id |-> "<None>"]

(* dispatch, the on_access loop: the plugins of the route in list order;   *)
(* the first Err ends the loop with its response in short.                 *)
RECURSIVE RunOnAccessNoStop(_, _, _)
RunOnAccessNoStop(plugins, i, st) ==
    IF i > Len(plugins) THEN st
    ELSE LET r == OnAccess(plugins[i], st.ctx, st.req)
             seen == [st EXCEPT !.accessed = Append(@, plugins[i].kind)]
         IN  IF r.ok
             THEN RunOnAccessNoStop(plugins, i + 1,
                      [seen EXCEPT !.ctx = r.val.ctx, !.req = r.val.req])
             ELSE RunOnAccessNoStop(plugins, i + 1, [seen EXCEPT !.short = Ok(r.err)])
RECURSIVE RunOnAccessRev(_, _, _)
RunOnAccessRev(plugins, i, st) ==
    IF i > Len(plugins) THEN st
    ELSE LET plugin == plugins[Len(plugins) + 1 - i]
             r == OnAccess(plugin, st.ctx, st.req)
             seen == [st EXCEPT !.accessed = Append(@, plugin.kind)]
         IN  IF r.ok
             THEN RunOnAccessRev(plugins, i + 1,
                      [seen EXCEPT !.ctx = r.val.ctx, !.req = r.val.req])
             ELSE [seen EXCEPT !.short = Ok(r.err)]
RECURSIVE RunOnAccess(_, _, _)
RunOnAccess(plugins, i, st) ==
    IF i > Len(plugins) THEN st
    ELSE LET r == OnAccess(plugins[i], st.ctx, st.req)
             seen == [st EXCEPT !.accessed = Append(@, plugins[i].kind)]
         IN  IF r.ok
             THEN RunOnAccess(plugins, i + 1,
                      [seen EXCEPT !.ctx = r.val.ctx, !.req = r.val.req])
             ELSE [seen EXCEPT !.short = Ok(r.err)]

(* dispatch, the after_forward loop: the same list in the same order, the  *)
(* response of one plugin handed to the next.                              *)
RECURSIVE RunAfterForwardRev(_, _, _, _)
RunAfterForwardRev(plugins, i, ctx, resp) ==
    IF i > Len(plugins) THEN resp
    ELSE RunAfterForwardRev(plugins, i + 1, ctx,
             AfterForward(plugins[Len(plugins) + 1 - i], ctx, resp))
RECURSIVE RunAfterForward(_, _, _, _)
RunAfterForward(plugins, i, ctx, resp) ==
    IF i > Len(plugins) THEN resp
    ELSE RunAfterForward(plugins, i + 1, ctx, AfterForward(plugins[i], ctx, resp))

HasId(list, id) == \E i \in 1..Len(list) : list[i].id = id

(* std::mem::replace on the entry found by id *)
ReplaceById(list, item) ==
    [i \in 1..Len(list) |-> IF list[i].id = item.id THEN item ELSE list[i]]

(* RuntimeConfig::new: load the registry, SharedData::new builds and       *)
(* installs the first router and upstream map.                             *)
InitGateway ==
    /\ config = InitConfig
    /\ \E r \in BuildRouter(InitConfig).val :
          builds = << [router |-> r, upstreams |-> BuildUpstreamMap(InitConfig).val] >>
    /\ sd_router = 1
    /\ sd_upstreams = 1
    /\ notify = FALSE
    /\ reloader = [pc |-> "idle", new |-> 0]
    /\ req = [r \in ReqIds |-> ReqIdle]
    /\ admin = [n |-> 0, resp |-> "none"]

(* The admin handlers take config.write(); apply_config holds              *)
(* config.read() from its first line to its last.                          *)
WriteLockFree == reloader.pc = "idle" /\ admin.n < MaxAdmin

(* RouteApi::add *)
RouteApiAddSilent(route) ==
    /\ WriteLockFree
    /\ IF HasId(config.routes, route.id)
       THEN /\ admin' = [n |-> admin.n + 1, resp |-> "Route Id exist"]
            /\ UNCHANGED <<config, notify>>
       ELSE /\ config' = [config EXCEPT !.routes = Append(@, route)]
            /\ admin' = [n |-> admin.n + 1, resp |-> "ok"]
            /\ UNCHANGED notify
    /\ UNCHANGED <<builds, sd_router, sd_upstreams, reloader, req>>
RouteApiAdd(route) ==
    /\ WriteLockFree
    /\ IF HasId(config.routes, route.id)
       THEN /\ admin' = [n |-> admin.n + 1, resp |-> "Route Id exist"]
            /\ UNCHANGED <<config, notify>>
       ELSE /\ config' = [config EXCEPT !.routes = Append(@, route)]
            /\ notify' = TRUE
            /\ admin' = [n |-> admin.n + 1, resp |-> "ok"]
    /\ UNCHANGED <<builds, sd_router, sd_upstreams, reloader, req>>

(* RouteApi::update *)
RouteApiUpdate(route) ==
    /\ WriteLockFree
    /\ IF HasId(config.routes, route.id)
       THEN /\ config' = [config EXCEPT !.routes = ReplaceById(@, route)]
            /\ notify' = TRUE
            /\ admin' = [n |-> admin.n + 1, resp |-> "ok"]
       ELSE /\ admin' = [n |-> admin.n + 1, resp |-> "Route Id not exist"]
            /\ UNCHANGED <<config, notify>>
    /\ UNCHANGED <<builds, sd_router, sd_upstreams, reloader, req>>

(* UpstreamApi::add *)
UpstreamApiAddAlways(upstream) ==
    /\ WriteLockFree
    /\ config' = [config EXCEPT !.upstreams = Append(@, upstream)]
    /\ notify' = TRUE
    /\ admin' = [n |-> admin.n + 1, resp |-> "ok"]
    /\ UNCHANGED <<builds, sd_router, sd_upstreams, reloader, req>>
UpstreamApiAdd(upstream) ==
    /\ WriteLockFree
    /\ IF HasId(config.upstreams, upstream.id)
       THEN /\ admin' = [n |-> admin.n + 1, resp |-> "Upstream Id exist"]
            /\ UNCHANGED <<config, notify>>
       ELSE /\ config' = [config EXCEPT !.upstreams = Append(@, upstream)]
            /\ notify' = TRUE
            /\ admin' = [n |-> admin.n + 1, resp |-> "ok"]
    /\ UNCHANGED <<builds, sd_router, sd_upstreams, reloader, req>>

(* UpstreamApi::update *)
UpstreamApiUpdate(upstream) ==
    /\ WriteLockFree
    /\ IF HasId(config.upstreams, upstream.id)
       THEN /\ config' = [config EXCEPT !.upstreams = ReplaceById(@, upstream)]
            /\ notify' = TRUE
            /\ admin' = [n |-> admin.n + 1, resp |-> "ok"]
       ELSE /\ admin' = [n |-> admin.n + 1, resp |-> "Upstream Id exist"]
            /\ UNCHANGED <<config, notify>>
    /\ UNCHANGED <<builds, sd_router, sd_upstreams, reloader, req>>

(* start_watch_config: notified() returns and consumes the permit;         *)
(* apply_config takes the read lock and SharedData::reload builds the      *)
(* router and the upstream map. A failed build is logged and the task      *)
(* waits again; a successful one goes on to the two stores.                *)
ReloadBuild ==
    /\ reloader.pc = "idle"
    /\ notify
    /\ notify' = FALSE
    /\ LET router == BuildRouter(config)
           upstreams == BuildUpstreamMap(config)
       IN  IF router.ok /\ upstreams.ok
           THEN /\ \E r \in router.val :
                      builds' = Append(builds, [router |-> r, upstreams |-> upstreams.val])
                /\ reloader' = [pc |-> "store_router", new |-> Len(builds) + 1]
           ELSE UNCHANGED <<builds, reloader>>
    /\ UNCHANGED <<config, sd_router, sd_upstreams, req, admin>>

(* self.router.store(Arc::new(router)) *)
ReloadStoreRouter ==
    /\ reloader.pc = "store_router"
    /\ sd_router' = reloader.new
    /\ reloader' = [reloader EXCEPT !.pc = "store_upstreams"]
    /\ UNCHANGED <<config, builds, sd_upstreams, notify, req, admin>>

(* self.upstreams.store(Arc::new(upstreams)); the config dump follows and  *)
(* the read lock is released.                                              *)
ReloadStoreUpstreams ==
    /\ reloader.pc = "store_upstreams"
    /\ sd_upstreams' = reloader.new
    /\ reloader' = [pc |-> "idle", new |-> 0]
    /\ UNCHANGED <<config, builds, sd_router, notify, req, admin>>

(* GatewayService::call: self.shared_data.router.load().clone() *)
CallLoadRouter(r) ==
    /\ req[r].pc = "idle"
    /\ req' = [req EXCEPT ![r] = [ReqIdle EXCEPT !.pc = "load_upstreams",
                                                 !.router = sd_router]]
    /\ UNCHANGED <<config, builds, sd_router, sd_upstreams, notify, reloader, admin>>

(* GatewayService::call: self.shared_data.upstreams.load().clone() *)
CallLoadUpstreams(r) ==
    /\ req[r].pc = "load_upstreams"
    /\ req' = [req EXCEPT ![r].pc = "find_route", ![r].upstreams = sd_upstreams]
    /\ UNCHANGED <<config, builds, sd_router, sd_upstreams, notify, reloader, admin>>

(* GatewayService::call: find_route on the router held, not_found() when   *)
(* none. Nothing before this line reads the request, so what the client    *)
(* sent is fixed here.                                                     *)
CallFindRoute(r, request) ==
    /\ req[r].pc = "find_route"
    /\ LET found == FindRoute(builds[req[r].router].router, request) IN
       IF found.ok
       THEN req' = [req EXCEPT ![r].pc = "dispatch", ![r].request = request,
                               ![r].route = found.val]
       ELSE req' = [req EXCEPT ![r].pc = "done", ![r].request = request,
                               ![r].status = NotFoundResp.status]
    /\ UNCHANGED <<config, builds, sd_router, sd_upstreams, notify, reloader, admin>>

(* GatewayService::dispatch: the on_access loop; the upstream named by     *)
(* ctx.upstream_id, else by the route, looked up in the upstream map held; *)
(* the forward through its client; the after_forward loop.                 *)
Dispatch(r) ==
    /\ req[r].pc = "dispatch"
    /\ LET upstreams == builds[req[r].upstreams].upstreams
           route == req[r].route
           a == RunOnAccess(route.plugins, 1,
                    [ctx |-> NoCtx, req |-> req[r].request, accessed |-> <<>>,
                     short |-> Err("none")])
           upstream_id == IF a.ctx.upstream_id # NoCtx.upstream_id
                          THEN a.ctx.upstream_id ELSE route.upstream_id
       IN  IF a.short.ok
           THEN req' = [req EXCEPT ![r].pc = "done", ![r].status = a.short.val.status,
                                   ![r].accessed = a.accessed, ![r].via = "short"]
           ELSE IF upstream_id \notin DOMAIN upstreams
           THEN req' = [req EXCEPT ![r].pc = "done",
                                   ![r].status = UpstreamUnavailableResp.status,
                                   ![r].accessed = a.accessed,
                                   ![r].upstream_id = upstream_id,
                                   ![r].via = "unavailable"]
           ELSE \E outcome \in ForwardOutcomes :
                   LET resp == RunAfterForward(route.plugins, 1, a.ctx,
                                               ForwardResult(outcome))
                   IN  req' = [req EXCEPT ![r].pc = "done", ![r].status = resp.status,
                                          ![r].accessed = a.accessed,
                                          ![r].after = resp.after,
                                          ![r].upstream_id = upstream_id,
                                          ![r].forwards = 1,
                                          ![r].failed = ~outcome.ok,
                                          ![r].sent = a.req,
                                          ![r].via = upstreams[upstream_id].id]
    /\ UNCHANGED <<config, builds, sd_router, sd_upstreams, notify, reloader, admin>>

(* the response is written and the task ends *)
Respond(r) ==
    /\ req[r].pc = "done"
    /\ req' = [req EXCEPT ![r] = ReqIdle]
    /\ UNCHANGED <<config, builds, sd_router, sd_upstreams, notify, reloader, admin>>

----------------------------------------------------------------------------
(* The left_right Registry and its operations (RegistryOp)                 *)

ConfigInputs ==
    { InitConfig,
      \* two routes of equal priority on "/hello", a third above them
      [routes |-> << [id |-> "r1", uris |-> <<"/hello">>, upstream_id |-> "u1",
                      matcher |-> "", priority |-> 0],
                     [id |-> "r3", uris |-> <<"/hello", "/hello/*">>, upstream_id |-> "u1",
                      matcher |-> "", priority |-> 0],
                     [id |-> "r2", uris |-> <<"/hello">>, upstream_id |-> "u2",
                      matcher |-> MatcherTom, priority |-> 100] >>,
       upstreams |-> InitConfig.upstreams],
      \* an upstream whose name differs from its id
      [routes |-> << [id |-> "r3", uris |-> <<"/hello">>, upstream_id |-> "u9",
                      matcher |-> "", priority |-> 50] >>,
       upstreams |-> << [id |-> "u9", name |-> "n9", strategy |-> "random",
                         endpoints |-> <<EpB>>] >>],
      \* a route naming an upstream that is not in the document
      [routes |-> << [id |-> "r3", uris |-> <<"/hello">>, upstream_id |-> "u9",
                      matcher |-> "", priority |-> 50] >>,
       upstreams |-> InitConfig.upstreams],
      \* a matcher that does not parse
      [routes |-> << [id |-> "r1", uris |-> <<"/hello">>, upstream_id |-> "u1",
                      matcher |-> "", priority |-> 0],
                     [id |-> "r2", uris |-> <<"/hello/*">>, upstream_id |-> "u1",
                      matcher |-> MatcherBad, priority |-> 100] >>,
       upstreams |-> InitConfig.upstreams],
      \* an unknown strategy name: the router builds, the upstream map does not
      [routes |-> << [id |-> "r1", uris |-> <<"/hello">>, upstream_id |-> "u2",
                      matcher |-> "", priority |-> 100] >>,
       upstreams |-> << [id |-> "u1", name |-> "u1", strategy |-> "random",
                         endpoints |-> <<EpA>>],
                        [id |-> "u2", name |-> "u2", strategy |-> "fastest",
                         endpoints |-> <<EpA>>] >>] }

Outcome(reg, res) == [reg |-> reg, res |-> res]

(* the Err an operation returns, with the operation that returned it *)
Failed(op, res) == [ok |-> FALSE, err |-> res.err, op |-> op]

(* Registry::reload: every (registry, result) the call can end in *)
ReloadEagerStore(reg, cfg) ==
    LET router == BuildRouter(cfg)
        upstreams == BuildUpstreamMap(cfg)
    IN  IF ~router.ok THEN { Outcome(reg, Failed("reload", router)) }
        ELSE IF ~upstreams.ok
             THEN { Outcome([reg EXCEPT !.config = cfg, !.router = r],
                            Failed("reload", upstreams)) : r \in router.val }
             ELSE { Outcome([config |-> cfg, router |-> r, upstreams |-> upstreams.val],
                            Ok("done")) : r \in router.val }
RegistryReload(reg, cfg) ==
    LET router == BuildRouter(cfg)
        upstreams == BuildUpstreamMap(cfg)
    IN  IF ~router.ok THEN { Outcome(reg, Failed("reload", router)) }
        ELSE IF ~upstreams.ok THEN { Outcome(reg, Failed("reload", upstreams)) }
        ELSE { Outcome([config |-> cfg, router |-> r, upstreams |-> upstreams.val],
                       Ok("done")) : r \in router.val }

(* Registry::add_route *)
RegistryAddRoute(reg, cfg) ==
    LET route == RouteNew(cfg) IN
    IF ~route.ok THEN { Outcome(reg, Failed("add_route", route)) }
    ELSE IF ~\E k \in DOMAIN reg.upstreams : reg.upstreams[k].id = route.val.upstream_id
         THEN { Outcome(reg, Failed("add_route", Err("UpstreamNotFound"))) }
         ELSE { Outcome([reg EXCEPT !.router = r], Ok("done")) :
                   r \in PushUris({reg.router}, cfg.uris, 1, route.val) }

(* endpoint.retain(|item| item.id != route.id); the insertion ranks of the *)
(* routes that stay are renumbered from 1.                                 *)
Retain(list, id) ==
    LET kept == SelectSeq(list, LAMBDA x : x.id # id) IN
    [i \in 1..Len(kept) |->
        [kept[i] EXCEPT !.seq = Cardinality({j \in 1..Len(kept) : kept[j].seq <= kept[i].seq})]]

(* for uri in &cfg.uris { retain; sort } over a set of possible routers *)
RECURSIVE RetainUris(_, _, _, _)
RetainUris(routers, uris, k, id) ==
    IF k > Len(uris) THEN routers
    ELSE RetainUris(UNION { { SetAt(r, uris[k], l) :
                                l \in SortUnstableByKey(Retain(AtOrDefault(r, uris[k]), id)) } :
                            r \in routers },
                    uris, k + 1, id)

(* Registry::delete_route *)
RegistryDeleteRoute(reg, cfg) ==
    LET route == RouteNew(cfg) IN
    IF ~route.ok THEN { Outcome(reg, Failed("delete_route", route)) }
    ELSE { Outcome([reg EXCEPT !.router = r], Ok("done")) :
              r \in RetainUris({reg.router}, cfg.uris, 1, route.val.id) }

(* Registry::add_upstream: the new entry is keyed by the upstream's id *)
RegistryAddUpstream(reg, cfg) ==
    LET upstream == UpstreamNew(cfg) IN
    IF ~upstream.ok THEN { Outcome(reg, Failed("add_upstream", upstream)) }
    ELSE { Outcome([reg EXCEPT !.upstreams = MapInsert(@, upstream.val.id, upstream.val)],
                   Ok("done")) }

(* Registry::delete_upstream *)
RegistryDeleteUpstream(reg, cfg) ==
    { Outcome([reg EXCEPT !.upstreams = [k \in DOMAIN @ \ {cfg.id} |-> @[k]]],
              Ok("done")) }

(* Registry::new *)
InitRegistry ==
    /\ \E r \in BuildRouter(InitConfig).val :
          registry = [config |-> InitConfig, router |-> r,
                      upstreams |-> BuildUpstreamMap(InitConfig).val]
    /\ opResult = Ok("done")

RECURSIVE SumLen(_, _)
SumLen(router, ps) ==
    IF ps = {} THEN 0
    ELSE LET p == CHOOSE x \in ps : TRUE IN Len(router[p]) + SumLen(router, ps \ {p})

RouterSize(router) == SumLen(router, DOMAIN router)

(* RegistryOp::Reload *)
Reload(cfg) ==
    /\ \E o \in RegistryReload(registry, cfg) : registry' = o.reg /\ opResult' = o.res
    /\ UNCHANGED <<gatewayVars, healthVars, lbVars, adminVars, lifeVars>>

(* check_endpoint of the checker of an upstream of the registry: the      *)
(* aggregated status of an endpoint is stored to its cell                  *)
ProbeStore(k, i, status) ==
    /\ k \in DOMAIN registry.upstreams
    /\ i \in 1..Len(registry.upstreams[k].endpoints)
    /\ registry' = [registry EXCEPT !.upstreams[k].health[i] = status]
    /\ UNCHANGED opResult
    /\ UNCHANGED <<gatewayVars, healthVars, lbVars, adminVars, lifeVars>>

(* RegistryOp::AddRoute *)
AddRoute(cfg) ==
    /\ RouterSize(registry.router) + Len(cfg.uris) <= MaxRoutes
    /\ \E o \in RegistryAddRoute(registry, cfg) : registry' = o.reg /\ opResult' = o.res
    /\ UNCHANGED <<gatewayVars, healthVars, lbVars, adminVars, lifeVars>>

(* RegistryOp::DeleteRoute *)
DeleteRoute(cfg) ==
    /\ \E o \in RegistryDeleteRoute(registry, cfg) : registry' = o.reg /\ opResult' = o.res
    /\ UNCHANGED <<gatewayVars, healthVars, lbVars, adminVars, lifeVars>>

(* RegistryOp::AddUpstream *)
AddUpstream(cfg) ==
    /\ \E o \in RegistryAddUpstream(registry, cfg) : registry' = o.reg /\ opResult' = o.res
    /\ UNCHANGED <<gatewayVars, healthVars, lbVars, adminVars, lifeVars>>

(* RegistryOp::DeleteUpstream *)
DeleteUpstream(cfg) ==
    /\ \E o \in RegistryDeleteUpstream(registry, cfg) : registry' = o.reg /\ opResult' = o.res
    /\ UNCHANGED <<gatewayVars, healthVars, lbVars, adminVars, lifeVars>>

----------------------------------------------------------------------------
(* Health checker and endpoint selection of one upstream                   *)

Endpoints == <<"a:5000", "b:5000">>
Eps == { Endpoints[i] : i \in 1..Len(Endpoints) }

Healthiness == {"Up", "Down"}

(* StatusRing::new *)
StatusRingNew(cfg) ==
    [status |-> IF cfg.default_down THEN "Down" ELSE "Up",
     capacity |-> cfg.rise + cfg.fall,
     raise |-> cfg.rise,
     fall |-> cfg.fall,
     ring |-> <<>>]

(* StatusRing::check_status: every round of the loop compares the newest   *)
(* entry of the ring, self.ring.iter().rev().next(), with expect.          *)
CheckStatus(sr, expect, threshold) ==
    \A k \in 1..threshold : sr.ring # <<>> /\ sr.ring[Len(sr.ring)] = expect

(* StatusRing::append *)
StatusRingAppend(sr, status) ==
    LET pushed == Append(sr.ring, status)
        ring == IF Len(pushed) >= sr.capacity THEN Tail(pushed) ELSE pushed
        sr1 == [sr EXCEPT !.ring = ring]
    IN  IF status = "Down"
        THEN IF CheckStatus(sr1, status, sr1.fall) THEN [sr1 EXCEPT !.status = status] ELSE sr1
        ELSE IF CheckStatus(sr1, status, sr1.raise) THEN [sr1 EXCEPT !.status = status] ELSE sr1

(* Upstream::heathy_endpoints: weight != 0 and the cell reads Up *)
HeathyEndpointsAnyWeight(w, c) ==
    SelectSeq(Endpoints, LAMBDA e : c[e] = "Up")
HeathyEndpoints(w, c) ==
    SelectSeq(Endpoints, LAMBDA e : w[e] # 0 /\ c[e] = "Up")

NoForward == [outcome |-> "none", endpoint |-> "-", seen |-> [e \in Eps |-> "Up"],
              strategy |-> "-"]

(* Upstream::new gives every endpoint a cell that reads healthy; the       *)
(* checker has spawned one check_endpoint task per endpoint.               *)
InitHealth ==
    /\ hc \in [rise : 0..MaxRise, fall : 0..MaxFall, default_down : BOOLEAN]
    /\ weights \in [Eps -> 0..MaxWeight]
    /\ prober = [e \in Eps |-> [pc |-> "start", sr |-> StatusRingNew(hc),
                                hist |-> <<>>, prev |-> "Up"]]
    /\ cell = [e \in Eps |-> "Up"]
    /\ fwd = NoForward

(* check_endpoint before its loop: StatusRing::new, the initial status is  *)
(* written to the cell.                                                    *)
CheckerInit(e) ==
    /\ prober[e].pc = "start"
    /\ prober' = [prober EXCEPT ![e].pc = "loop", ![e].prev = prober[e].sr.status]
    /\ cell' = [cell EXCEPT ![e] = prober[e].sr.status]
    /\ UNCHANGED <<hc, weights, fwd>>

(* one round of the check_endpoint loop: detect_endpoint_health answers    *)
(* status, it is appended to the ring, the cell is written when it differs *)
CheckEndpoint(e, status) ==
    /\ prober[e].pc = "loop"
    /\ Len(prober[e].hist) < MaxProbes
    /\ LET sr == StatusRingAppend(prober[e].sr, status) IN
       /\ prober' = [prober EXCEPT ![e].sr = sr,
                                   ![e].hist = Append(@, status),
                                   ![e].prev = prober[e].sr.status]
       /\ cell' = [cell EXCEPT ![e] = sr.status]
    /\ UNCHANGED <<hc, weights, fwd>>

(* UpstreamChecker::start returns once it has spawned the probers; it has *)
(* no await. Its locals tx and rx are dropped, and with rx, the only       *)
(* receiver, the channel is closed.                                        *)
StartReturn ==
    /\ chan.rx = "held"
    /\ chan' = [chan EXCEPT !.rx = "dropped"]
    /\ UNCHANGED <<drain, conn>>

(* tokio::select! at the head of the check_endpoint loop. Its one branch,  *)
(* statuc_tx.closed() with the irrefutable pattern _, has no precondition  *)
(* and is never disabled; the else arm runs only when every branch is      *)
(* disabled. The select waits until the channel is closed.                 *)
SelectArmNever(rx) == "pending"
SelectArm(rx) == IF rx = "dropped" THEN "closed" ELSE "pending"

(* one pass of the check_endpoint loop: break on the closed arm; the else  *)
(* arm is the probe round of CheckEndpoint.                                *)
ProberSelect(e, status) ==
    /\ prober[e].pc = "loop"
    /\ CASE SelectArm(chan.rx) = "closed" ->
                /\ prober' = [prober EXCEPT ![e].pc = "stopped"]
                /\ UNCHANGED <<hc, weights, cell, fwd>>
         [] SelectArm(chan.rx) = "else" -> CheckEndpoint(e, status)
         [] OTHER -> FALSE

(* run() in main: ctrl_c has arrived, the select arm has released the      *)
(* context's own watch, and drain_tx.drain() has sent the signal. probing  *)
(* is bookkeeping: the probers that had not stopped by then.               *)
DrainSignal ==
    /\ drain.pc = "running"
    /\ drain' = [pc |-> "draining",
                 probing |-> { e \in Eps : prober[e].pc # "stopped" }]
    /\ UNCHANGED <<chan, conn>>

----------------------------------------------------------------------------
(* Connection tasks and the drain of main                                  *)

(* ConnService::call: the task of an accepted connection holds a clone of  *)
(* the drain Watch and serves the connection.                              *)
Accept(c) ==
    /\ conn[c].pc = "none"
    /\ drain.pc # "returned"
    /\ conn' = [conn EXCEPT ![c].pc = "serving", ![c].watch = TRUE]
    /\ UNCHANGED <<chan, drain>>

(* a request arrives on a connection that is served; a connection in       *)
(* graceful shutdown takes no new request                                  *)
RequestArrives(c) ==
    /\ conn[c].pc = "serving"
    /\ ~conn[c].inflight
    /\ conn[c].served < MaxServed
    /\ conn' = [conn EXCEPT ![c].inflight = TRUE]
    /\ UNCHANGED <<chan, drain>>

(* the response of the request in flight has been written *)
RequestDone(c) ==
    /\ conn[c].pc \in {"serving", "graceful"}
    /\ conn[c].inflight
    /\ conn' = [conn EXCEPT ![c].inflight = FALSE, ![c].served = @ + 1]
    /\ UNCHANGED <<chan, drain>>

(* the connection future resolves because the client closed: the arm       *)
(* res = &mut conn of the select, or the future inside release_after; the  *)
(* task ends and drops its handle on the drain channel.                    *)
ConnClosed(c) ==
    /\ conn[c].pc \in {"serving", "graceful"}
    /\ conn' = [conn EXCEPT ![c].pc = "done", ![c].watch = FALSE,
                            ![c].inflight = FALSE, ![c].end = "client"]
    /\ UNCHANGED <<chan, drain>>

(* the arm shutdown = drain.signaled(): graceful_shutdown on the           *)
(* connection; shutdown, the ReleaseShutdown handle, is kept.              *)
ConnSignaled(c) ==
    /\ conn[c].pc = "serving"
    /\ drain.pc = "draining"
    /\ conn' = [conn EXCEPT ![c].pc = "graceful", ![c].grace_inflight = conn[c].inflight]
    /\ UNCHANGED <<chan, drain>>

(* a connection in graceful shutdown completes once no request is in       *)
(* flight on it                                                            *)
GracefulCompleteAtOnce(k) == TRUE
GracefulComplete(k) == ~k.inflight

(* shutdown.release_after(conn): the connection has completed, the handle  *)
(* is dropped, the task ends.                                              *)
ConnReleased(c) ==
    /\ conn[c].pc = "graceful"
    /\ GracefulComplete(conn[c])
    /\ conn' = [conn EXCEPT ![c].pc = "done", ![c].watch = FALSE, ![c].end = "released"]
    /\ UNCHANGED <<chan, drain>>

(* Signal::drain resolves when every Watch and every ReleaseShutdown       *)
(* handle has been dropped.                                                *)
DrainedAtOnce(cs) == TRUE
Drained(cs) == \A c \in DOMAIN cs : ~cs[c].watch

(* drain_tx.drain().await returns and run() returns Ok *)
DrainReturn ==
    /\ drain.pc = "draining"
    /\ Drained(conn)
    /\ drain' = [drain EXCEPT !.pc = "returned"]
    /\ UNCHANGED <<chan, conn>>

----------------------------------------------------------------------------
(* Load balancing strategies and the upstream's client                    *)

Tasks == {"t1", "t2"}

NoConnections == [e \in {} |-> 0]

(* LeastRequest::on_send_request: *entry(endpoint).or_insert(0) += 1,      *)
(* under the write lock                                                    *)
OnSendRequestFromOne(c, e) == MapInsert(c, e, (IF e \in DOMAIN c THEN c[e] ELSE 1) + 1)
OnSendRequest(c, e) == MapInsert(c, e, (IF e \in DOMAIN c THEN c[e] ELSE 0) + 1)

(* LeastRequest::on_request_done: *entry(endpoint).or_insert(0) -= 1,      *)
(* under the write lock. A task calls it after its own on_send_request on  *)
(* the same endpoint, so the usize counter is at least 1 here.             *)
OnRequestDone(c, e) == MapInsert(c, e, (IF e \in DOMAIN c THEN c[e] ELSE 0) - 1)

TaskIdle == [pc |-> "idle", endpoint |-> "-", n |-> 0, last |-> "-", inst |-> 0]
NoSelection == [list |-> <<>>, random |-> 0, result |-> "-"]

(* no request is inside Fowarder::forward *)
NoForwarding ==
    [stage |-> "none", uri_host |-> "-", host |-> "-", overwrite_host |-> FALSE,
     endpoint |-> "-", sent_host |-> "-", result |-> "-"]

IdleLB ==
    /\ connections = NoConnections
    /\ task = [t \in Tasks |-> TaskIdle]
    /\ calls = [e \in Eps |-> [sends |-> 0, dones |-> 0]]
    /\ sel = NoSelection
    /\ fw = NoForwarding
    /\ old = <<>>

(* GatewayClient::call up to its await: endpoint = req.uri(),              *)
(* strategy.on_send_request(&endpoint), inner.call(req) is issued          *)
ClientCallSend(t, e) ==
    /\ task[t].pc = "idle"
    /\ task[t].n < MaxCalls
    /\ connections' = OnSendRequest(connections, e)
    /\ task' = [task EXCEPT ![t] = [pc |-> "await", endpoint |-> e,
                                    n |-> task[t].n + 1, last |-> "-", inst |-> 0]]
    /\ calls' = [calls EXCEPT ![e].sends = @ + 1]
    /\ UNCHANGED <<sel, fw, old>>

(* GatewayClient::call after its await: inner.call(req) has resolved to a  *)
(* response or an error, strategy.on_request_done(&endpoint) on the Arc    *)
(* the future took with self.clone(): the strategy in use (inst 0) or one  *)
(* a reload has replaced since.                                            *)
ClientCallDoneOnCurrent(t, outcome) ==
    /\ task[t].pc = "await"
    /\ connections' = OnRequestDone(connections, task[t].endpoint)
    /\ task' = [task EXCEPT ![t].pc = "idle",
                            ![t].last = IF outcome.ok THEN "ok" ELSE "error"]
    /\ calls' = [calls EXCEPT ![task[t].endpoint].dones = @ + 1]
    /\ UNCHANGED <<sel, fw, old>>
ClientCallDone(t, outcome) ==
    /\ task[t].pc = "await"
    /\ IF task[t].inst = 0
       THEN /\ connections' = OnRequestDone(connections, task[t].endpoint)
            /\ UNCHANGED old
       ELSE /\ old' = [old EXCEPT ![task[t].inst] = OnRequestDone(@, task[t].endpoint)]
            /\ UNCHANGED connections
    /\ task' = [task EXCEPT ![t].pc = "idle",
                            ![t].last = IF outcome.ok THEN "ok" ELSE "error"]
    /\ calls' = [calls EXCEPT ![task[t].endpoint].dones = @ + 1]
    /\ UNCHANGED <<sel, fw>>

(* the future of GatewayClient::call is dropped while it awaits            *)
(* inner.call(req): the client went away. Nothing after the await runs.    *)
ClientCallCancel(t) ==
    /\ task[t].pc = "await"
    /\ task' = [task EXCEPT ![t].pc = "idle", ![t].last = "cancelled"]
    /\ UNCHANGED <<connections, calls, sel, fw, old>>

(* Registry::reload replaces the upstream: Upstream::new builds a new       *)
(* strategy, a LeastRequest with an empty map. The futures that await      *)
(* their forward keep the Arc of the strategy they were made with.         *)
ReplaceStrategy ==
    /\ Len(old) < MaxReloads
    /\ old' = Append(old, connections)
    /\ connections' = NoConnections
    /\ task' = [t \in Tasks |->
                   IF task[t].pc = "await" /\ task[t].inst = 0
                   THEN [task[t] EXCEPT !.inst = Len(old) + 1]
                   ELSE task[t]]
    /\ UNCHANGED <<calls, sel, fw>>

(* the endpoint lists handed to a strategy: total weight above 0 *)
EndpointLists ==
    { l \in { << [addr |-> "a:5000", weight |-> wa], [addr |-> "b:5000", weight |-> wb],
                 [addr |-> "c:5000", weight |-> wc] >> :
                   wa \in 0..MaxLBWeight, wb \in 0..MaxLBWeight, wc \in 0..MaxLBWeight } :
        l[1].weight + l[2].weight + l[3].weight > 0 }

RECURSIVE TotalWeight(_, _)
TotalWeight(list, i) == IF i = 0 THEN 0 ELSE list[i].weight + TotalWeight(list, i - 1)

(* WeightedRandom::select_endpoint after the draw: the loop over the list  *)
(* with the running sum curr, unreachable!() behind it.                    *)
RECURSIVE WeightedScanInclusive(_, _, _, _)
WeightedScanInclusive(list, random, i, curr) ==
    IF i > Len(list) THEN "unreachable!"
    ELSE IF random <= curr + list[i].weight THEN list[i].addr
    ELSE WeightedScanInclusive(list, random, i + 1, curr + list[i].weight)
RECURSIVE WeightedScan(_, _, _, _)
WeightedScan(list, random, i, curr) ==
    IF i > Len(list) THEN "unreachable!"
    ELSE IF random < curr + list[i].weight THEN list[i].addr
    ELSE WeightedScan(list, random, i + 1, curr + list[i].weight)

(* WeightedRandom::select_endpoint on the list and the draw of sel *)
WeightedSelect ==
    /\ sel.list # <<>>
    /\ sel.result = "-"
    /\ sel' = [sel EXCEPT !.result = WeightedScan(sel.list, sel.random, 1, 0)]
    /\ UNCHANGED <<connections, task, calls, fw, old>>

(* Uri::host of the request line: None for the origin form GET /path, the *)
(* host of the authority for the absolute form                             *)
NoHost == "<None>"
UriHosts == {NoHost, "gw", "a", "b"}

(* the Host header the client sent *)
HostHeaders == {"gw", "www", "a"}

(* the requests handed to Fowarder::forward, ctx.overwrite_host taken from *)
(* the route                                                               *)
ForwardInputs ==
    { [stage |-> "recv", uri_host |-> u, host |-> h, overwrite_host |-> o,
       endpoint |-> "-", sent_host |-> "-", result |-> "-"] :
        u \in UriHosts, h \in HostHeaders, o \in BOOLEAN }

(* Uri::host of an endpoint *)
EndpointHost(endpoint) ==
    CASE endpoint = "a:5000" -> "a"
      [] endpoint = "b:5000" -> "b"
      [] OTHER -> "-"

(* Fowarder::forward up to its await: with ctx.overwrite_host the Host     *)
(* header is set to req.uri().host() (expect panics on None), then the     *)
(* strategy selects the endpoint, on_send_request, and do_forward puts the *)
(* endpoint's scheme and authority into the URI and sends the request.     *)
ForwardSend(endpoint) ==
    /\ fw.stage = "recv"
    /\ IF fw.overwrite_host /\ fw.uri_host = NoHost
       THEN /\ fw' = [fw EXCEPT !.stage = "panic", !.result = "get host failed"]
            /\ UNCHANGED connections
       ELSE /\ fw' = [fw EXCEPT !.stage = "await",
                                !.endpoint = endpoint,
                                !.sent_host = IF fw.overwrite_host THEN fw.uri_host
                                              ELSE fw.host]
            /\ connections' = OnSendRequest(connections, endpoint)
    /\ UNCHANGED <<task, calls, sel, old>>

(* Fowarder::forward after its await: on_request_done, the result mapped *)
ForwardDone(outcome) ==
    /\ fw.stage = "await"
    /\ connections' = OnRequestDone(connections, fw.endpoint)
    /\ fw' = [fw EXCEPT !.stage = "done",
                        !.result = IF outcome.ok THEN "ok" ELSE "error"]
    /\ UNCHANGED <<task, calls, sel, old>>

(* the Context::upstream_addrs built from a list of addresses *)
WithWeights(list, w) == [i \in 1..Len(list) |-> [addr |-> list[i], weight |-> w[list[i]]]]

(* LeastRequest::select_endpoint up to address_indices: the endpoints of   *)
(* the list without a counter entry when the map is empty or shorter than  *)
(* the list; else the keys of the whole map that tie at its least count,   *)
(* each looked up in the list with unwrap().                               *)
LeastRequestCandidates(c, list) ==
    LET inList == { list[i] : i \in 1..Len(list) } IN
    IF Cardinality(DOMAIN c) = 0 \/ Len(list) > Cardinality(DOMAIN c)
    THEN { e \in inList : e \notin DOMAIN c }
    ELSE LET ties == { k \in DOMAIN c : \A j \in DOMAIN c : c[k] <= c[j] }
         IN  IF ties \subseteq inList THEN ties ELSE {"panic"}

(* LoadBalanceStrategy::select_endpoint of the three strategies: the       *)
(* results the draw of the random number generator allows                  *)
SelectEndpoint(strategy, list, w, c) ==
    CASE strategy = "random" -> { list[i] : i \in 1..Len(list) }
      [] strategy = "weighted" ->
            LET l == WithWeights(list, w)
                total == TotalWeight(l, Len(l))
            IN  IF total = 0 THEN {"panic"}
                ELSE { WeightedScan(l, random, 1, 0) : random \in 0..(total - 1) }
      [] strategy = "least_request" ->
            LET indices == LeastRequestCandidates(c, list)
            IN  IF indices = {} THEN {"panic"} ELSE indices

(* Route::forward_request up to the forward: no healthy endpoint answers   *)
(* upstream_unavailable, else the strategy of the upstream selects one of  *)
(* the healthy endpoints and the request is forwarded to it.               *)
ForwardRequest(strategy) ==
    /\ LET working_upstream == HeathyEndpoints(weights, cell) IN
       IF working_upstream = <<>>
       THEN fwd' = [outcome |-> "upstream_unavailable", endpoint |-> "-", seen |-> cell,
                    strategy |-> strategy]
       ELSE \E endpoint \in SelectEndpoint(strategy, working_upstream, weights, connections) :
               fwd' = IF endpoint \in { "panic", "unreachable!" }
                      THEN [outcome |-> "panic", endpoint |-> "-", seen |-> cell,
                            strategy |-> strategy]
                      ELSE [outcome |-> "forwarded", endpoint |-> endpoint, seen |-> cell,
                            strategy |-> strategy]
    /\ UNCHANGED <<hc, weights, prober, cell>>

----------------------------------------------------------------------------
(* The admin API behind its session middleware                             *)

(* AuthMiddleware::new("/login") in AdminApi::run *)
LoginPath == "/login"

(* the cookie sid of a request, NoCookie when it carries none *)
NoCookie == "<none>"
Sids == {"s1", "s2", "s3"}
Cookies == Sids \cup {NoCookie}

(* ALLOWED_ADMIN and two logins that differ from it *)
Credentials ==
    { [username |-> "admin", password |-> "admin"],
      [username |-> "admin", password |-> "guess"],
      [username |-> "guest", password |-> "admin"] }

NoBody == [id |-> "-"]

(* the routes AdminApi::run registers, /api/routes/:id and                 *)
(* /api/upstreams/:id with the id of the body                              *)
AdminEndpoints ==
    { <<"POST", "/api/session/login">>, <<"POST", "/api/session/logout">>,
      <<"GET", "/api/routes">>, <<"POST", "/api/routes">>,
      <<"GET", "/api/routes/:id">>, <<"PUT", "/api/routes/:id">>,
      <<"GET", "/api/upstreams">>, <<"POST", "/api/upstreams">>,
      <<"GET", "/api/upstreams/:id">>, <<"PUT", "/api/upstreams/:id">> }

BodiesOf(method, path) ==
    CASE path \in {"/api/session/login", LoginPath} -> Credentials
      [] method \in {"POST", "PUT"} /\ path \in {"/api/routes", "/api/routes/:id"} -> RouteInputs
      [] method \in {"POST", "PUT"} /\ path \in {"/api/upstreams", "/api/upstreams/:id"}
            -> UpstreamInputs
      [] OTHER -> {NoBody}

AdminRequests ==
    UNION { { [method |-> ep[1], path |-> ep[2], cookie |-> c, body |-> b] :
                c \in Cookies, b \in BodiesOf(ep[1], ep[2]) } :
            ep \in AdminEndpoints \cup { <<"POST", LoginPath>> } }

NoAdminRequest ==
    [request |-> [method |-> "-", path |-> "-", cookie |-> NoCookie, body |-> NoBody],
     status |-> 0, handler |-> "none", data |-> <<>>, set_cookie |-> NoCookie]

IdleAdmin ==
    /\ sessions = {}
    /\ areq = NoAdminRequest

(* AuthMiddleware::handle: a request whose path is not login_path goes on  *)
(* only with a cookie sid that the session store holds; a request on       *)
(* login_path goes on as it is.                                            *)
AuthMiddlewareAnyCookie(store, request) ==
    IF request.path # LoginPath
    THEN IF request.cookie # NoCookie THEN "next" ELSE "unauthorized"
    ELSE "next"
AuthMiddlewareHandle(store, request) ==
    IF request.path # LoginPath
    THEN IF request.cookie # NoCookie /\ request.cookie \in store
         THEN "next" ELSE "unauthorized"
    ELSE "next"

Answer(request, status, handler, data, set_cookie) ==
    [request |-> request, status |-> status, handler |-> handler, data |-> data,
     set_cookie |-> set_cookie]

(* SessionApi::login *)
SessionApiLogin(request) ==
    /\ IF request.body.username = "admin" /\ request.body.password = "admin"
       THEN \E sid \in Sids :
              /\ sessions' = sessions \cup {sid}
              /\ areq' = Answer(request, 200, "SessionApi::login", <<>>, sid)
       ELSE /\ areq' = Answer(request, 401, "SessionApi::login", <<>>, NoCookie)
            /\ UNCHANGED sessions
    /\ UNCHANGED gatewayVars

(* SessionApi::logout *)
SessionApiLogout(request) ==
    /\ sessions' = sessions \ {request.cookie}
    /\ areq' = Answer(request, 200, "SessionApi::logout", <<>>, "")
    /\ UNCHANGED gatewayVars

(* a handler that writes the config: its answer is Ok or the error it      *)
(* returned, whose status the web framework chooses                        *)
Mutation(request, handler) ==
    /\ \E status \in IF admin'.resp = "ok" THEN {200} ELSE {400, 500} :
          areq' = Answer(request, status, handler, <<>>, NoCookie)
    /\ UNCHANGED sessions

(* get_list and get_detail of RouteApi and UpstreamApi *)
Query(request, handler, data) ==
    /\ areq' = Answer(request, 200, handler, data, NoCookie)
    /\ UNCHANGED <<sessions, gatewayVars>>

(* one request through the app of AdminApi::run: the middleware, then the  *)
(* handler registered for its method and path, 404 when there is none      *)
AdminRequest(request) ==
    IF AuthMiddlewareHandle(sessions, request) = "unauthorized"
    THEN /\ areq' = Answer(request, 401, "none", <<>>, NoCookie)
         /\ UNCHANGED <<sessions, gatewayVars>>
    ELSE LET ep == <<request.method, request.path>> IN
         CASE ep = <<"POST", "/api/session/login">> -> SessionApiLogin(request)
           [] ep = <<"POST", "/api/session/logout">> -> SessionApiLogout(request)
           [] ep = <<"GET", "/api/routes">> -> Query(request, "RouteApi::get_list", config.routes)
           [] ep = <<"GET", "/api/routes/:id">> ->
                 Query(request, "RouteApi::get_detail",
                       SelectSeq(config.routes, LAMBDA r : r.id = request.body.id))
           [] ep = <<"POST", "/api/routes">> ->
                 RouteApiAdd(request.body) /\ Mutation(request, "RouteApi::add")
           [] ep = <<"PUT", "/api/routes/:id">> ->
                 RouteApiUpdate(request.body) /\ Mutation(request, "RouteApi::update")
           [] ep = <<"GET", "/api/upstreams">> ->
                 Query(request, "UpstreamApi::get_list", config.upstreams)
           [] ep = <<"GET", "/api/upstreams/:id">> ->
                 Query(request, "UpstreamApi::get_detail",
                       SelectSeq(config.upstreams, LAMBDA u : u.id = request.body.id))
           [] ep = <<"POST", "/api/upstreams">> ->
                 UpstreamApiAdd(request.body) /\ Mutation(request, "UpstreamApi::add")
           [] ep = <<"PUT", "/api/upstreams/:id">> ->
                 UpstreamApiUpdate(request.body) /\ Mutation(request, "UpstreamApi::update")
           [] OTHER -> /\ areq' = Answer(request, 404, "none", <<>>, NoCookie)
                       /\ UNCHANGED <<sessions, gatewayVars>>

----------------------------------------------------------------------------
(* Specifications *)

(* no checker has been started, no signal raised, no connection accepted  *)
NoConn == [pc |-> "none", inflight |-> FALSE, served |-> 0, watch |-> FALSE,
           end |-> "-", grace_inflight |-> FALSE]
Conns == {"c1", "c2"}
IdleLife ==
    /\ chan = [rx |-> "held"]
    /\ drain = [pc |-> "running", probing |-> {}]
    /\ conn = [c \in Conns |-> NoConn]

Init ==
    /\ InitGateway
    /\ registry = [config |-> InitConfig, router |-> EmptyRouter, upstreams |-> EmptyUpstreams]
    /\ opResult = Ok("done")
    /\ hc = [rise |-> 2, fall |-> 3, default_down |-> FALSE]
    /\ weights = [e \in Eps |-> 1]
    /\ prober = [e \in Eps |-> [pc |-> "start", sr |-> StatusRingNew(hc),
                                hist |-> <<>>, prev |-> "Up"]]
    /\ cell = [e \in Eps |-> "Up"]
    /\ fwd = NoForward
    /\ IdleLB
    /\ IdleAdmin
    /\ IdleLife

Next ==
    \/ \E route \in RouteInputs :
          (RouteApiAdd(route) /\ UNCHANGED <<registryVars, healthVars, lbVars, adminVars, lifeVars>>)
    \/ \E route \in RouteInputs :
          (RouteApiUpdate(route) /\ UNCHANGED <<registryVars, healthVars, lbVars, adminVars, lifeVars>>)
    \/ \E upstream \in UpstreamInputs :
          (UpstreamApiAdd(upstream) /\ UNCHANGED <<registryVars, healthVars, lbVars, adminVars, lifeVars>>)
    \/ \E upstream \in UpstreamInputs :
          (UpstreamApiUpdate(upstream) /\ UNCHANGED <<registryVars, healthVars, lbVars, adminVars, lifeVars>>)
    \/ (ReloadBuild /\ UNCHANGED <<registryVars, healthVars, lbVars, adminVars, lifeVars>>)
    \/ (ReloadStoreRouter /\ UNCHANGED <<registryVars, healthVars, lbVars, adminVars, lifeVars>>)
    \/ (ReloadStoreUpstreams /\ UNCHANGED <<registryVars, healthVars, lbVars, adminVars, lifeVars>>)
    \/ \E r \in ReqIds : (CallLoadRouter(r) /\ UNCHANGED <<registryVars, healthVars, lbVars, adminVars, lifeVars>>)
    \/ \E r \in ReqIds : (CallLoadUpstreams(r) /\ UNCHANGED <<registryVars, healthVars, lbVars, adminVars, lifeVars>>)
    \/ \E r \in ReqIds, request \in Requests :
          (CallFindRoute(r, request) /\ UNCHANGED <<registryVars, healthVars, lbVars, adminVars, lifeVars>>)
    \/ \E r \in ReqIds : (Dispatch(r) /\ UNCHANGED <<registryVars, healthVars, lbVars, adminVars, lifeVars>>)
    \/ \E r \in ReqIds : (Respond(r) /\ UNCHANGED <<registryVars, healthVars, lbVars, adminVars, lifeVars>>)

Spec == Init /\ [][Next]_vars

(* the task start_watch_config spawns: tokio runs it whenever it can go on *)
WatchConfig ==
    /\ ReloadBuild \/ ReloadStoreRouter \/ ReloadStoreUpstreams
    /\ UNCHANGED <<registryVars, healthVars, lbVars, adminVars, lifeVars>>

(* The admin API and a reload task that is never starved *)
NextLive ==
    \/ \E route \in RouteInputs :
          (RouteApiAdd(route) /\ UNCHANGED <<registryVars, healthVars, lbVars, adminVars, lifeVars>>)
    \/ \E route \in RouteInputs :
          (RouteApiUpdate(route) /\ UNCHANGED <<registryVars, healthVars, lbVars, adminVars, lifeVars>>)
    \/ \E upstream \in UpstreamInputs :
          (UpstreamApiAdd(upstream) /\ UNCHANGED <<registryVars, healthVars, lbVars, adminVars, lifeVars>>)
    \/ \E upstream \in UpstreamInputs :
          (UpstreamApiUpdate(upstream) /\ UNCHANGED <<registryVars, healthVars, lbVars, adminVars, lifeVars>>)
    \/ (ReloadBuild /\ UNCHANGED <<registryVars, healthVars, lbVars, adminVars, lifeVars>>)
    \/ (ReloadStoreRouter /\ UNCHANGED <<registryVars, healthVars, lbVars, adminVars, lifeVars>>)
    \/ (ReloadStoreUpstreams /\ UNCHANGED <<registryVars, healthVars, lbVars, adminVars, lifeVars>>)

SpecLive == Init /\ [][NextLive]_vars /\ WF_vars(WatchConfig)

IdleGateway ==
    /\ config = InitConfig
    /\ builds = <<>>
    /\ sd_router = 0
    /\ sd_upstreams = 0
    /\ notify = FALSE
    /\ reloader = [pc |-> "idle", new |-> 0]
    /\ req = [r \in ReqIds |-> ReqIdle]
    /\ admin = [n |-> 0, resp |-> "none"]

InitR ==
    /\ IdleGateway
    /\ InitRegistry
    /\ hc = [rise |-> 2, fall |-> 3, default_down |-> FALSE]
    /\ weights = [e \in Eps |-> 1]
    /\ prober = [e \in Eps |-> [pc |-> "start", sr |-> StatusRingNew(hc),
                                hist |-> <<>>, prev |-> "Up"]]
    /\ cell = [e \in Eps |-> "Up"]
    /\ fwd = NoForward
    /\ IdleLB
    /\ IdleAdmin
    /\ IdleLife

NextR ==
    \/ \E cfg \in ConfigInputs : Reload(cfg)
    \/ \E cfg \in RouteInputs : AddRoute(cfg)
    \/ \E cfg \in RouteInputs : DeleteRoute(cfg)
    \/ \E cfg \in UpstreamInputs : AddUpstream(cfg)
    \/ \E cfg \in UpstreamInputs : DeleteUpstream(cfg)

SpecRegistry == InitR /\ [][NextR]_vars

(* The registry reloaded while the checkers of its upstreams probe *)
NextReload ==
    \/ \E cfg \in ConfigInputs : Reload(cfg)
    \/ \E k \in {"u1", "u2", "n9"}, i \in 1..2, status \in {"Up", "Down"} :
          ProbeStore(k, i, status)

SpecReload == InitR /\ [][NextReload]_vars

(* The dispatcher alone: requests against the snapshot built at startup    *)
(* from one of the configs with plugins.                                   *)
InitD ==
    /\ config \in DispatchConfigs
    /\ \E r \in BuildRouter(config).val :
          builds = << [router |-> r, upstreams |-> BuildUpstreamMap(config).val] >>
    /\ sd_router = 1
    /\ sd_upstreams = 1
    /\ notify = FALSE
    /\ reloader = [pc |-> "idle", new |-> 0]
    /\ req = [r \in ReqIds |-> ReqIdle]
    /\ admin = [n |-> 0, resp |-> "none"]
    /\ registry = [config |-> InitConfig, router |-> EmptyRouter, upstreams |-> EmptyUpstreams]
    /\ opResult = Ok("done")
    /\ hc = [rise |-> 2, fall |-> 3, default_down |-> FALSE]
    /\ weights = [e \in Eps |-> 1]
    /\ prober = [e \in Eps |-> [pc |-> "start", sr |-> StatusRingNew(hc),
                                hist |-> <<>>, prev |-> "Up"]]
    /\ cell = [e \in Eps |-> "Up"]
    /\ fwd = NoForward
    /\ IdleLB
    /\ IdleAdmin
    /\ IdleLife

NextD ==
    \/ \E r \in ReqIds : (CallLoadRouter(r) /\ UNCHANGED <<registryVars, healthVars, lbVars, adminVars, lifeVars>>)
    \/ \E r \in ReqIds : (CallLoadUpstreams(r) /\ UNCHANGED <<registryVars, healthVars, lbVars, adminVars, lifeVars>>)
    \/ \E r \in ReqIds, request \in Requests :
          (CallFindRoute(r, request) /\ UNCHANGED <<registryVars, healthVars, lbVars, adminVars, lifeVars>>)
    \/ \E r \in ReqIds : (Dispatch(r) /\ UNCHANGED <<registryVars, healthVars, lbVars, adminVars, lifeVars>>)
    \/ \E r \in ReqIds : (Respond(r) /\ UNCHANGED <<registryVars, healthVars, lbVars, adminVars, lifeVars>>)

SpecDispatch == InitD /\ [][NextD]_vars

InitH ==
    /\ IdleGateway
    /\ registry = [config |-> InitConfig, router |-> EmptyRouter, upstreams |-> EmptyUpstreams]
    /\ opResult = Ok("done")
    /\ InitHealth
    /\ IdleLB
    /\ IdleAdmin
    /\ IdleLife

NextH ==
    \/ \E e \in Eps : (CheckerInit(e) /\ UNCHANGED <<gatewayVars, registryVars, lbVars, adminVars, lifeVars>>)
    \/ \E e \in Eps, status \in Healthiness :
          (CheckEndpoint(e, status) /\ UNCHANGED <<gatewayVars, registryVars, lbVars, adminVars, lifeVars>>)
    \/ \E strategy \in Strategies :
          (ForwardRequest(strategy) /\ UNCHANGED <<gatewayVars, registryVars, lbVars, adminVars, lifeVars>>)

SpecHealth == InitH /\ [][NextH]_vars

(* The life of the probers of one upstream: spawned by start, each waits   *)
(* in its select; main raises the shutdown signal at any time. Tasks that  *)
(* tokio has spawned are polled, and start runs to its end without an      *)
(* await: the steps of start and of each prober are weakly fair.           *)
NextP ==
    \/ (StartReturn /\ UNCHANGED <<gatewayVars, registryVars, healthVars, lbVars, adminVars>>)
    \/ (DrainSignal /\ UNCHANGED <<gatewayVars, registryVars, healthVars, lbVars, adminVars>>)
    \/ \E e \in Eps :
          (CheckerInit(e) /\ UNCHANGED <<gatewayVars, registryVars, lbVars, adminVars, lifeVars>>)
    \/ \E e \in Eps, status \in Healthiness :
          (ProberSelect(e, status) /\ UNCHANGED <<gatewayVars, registryVars, lbVars, adminVars, lifeVars>>)

SpecProber ==
    /\ InitH
    /\ [][NextP]_vars
    /\ WF_vars(StartReturn /\ UNCHANGED <<gatewayVars, registryVars, healthVars, lbVars, adminVars>>)
    /\ \A e \in Eps :
          /\ WF_vars(CheckerInit(e) /\ UNCHANGED <<gatewayVars, registryVars, lbVars, adminVars, lifeVars>>)
          /\ WF_vars(\E status \in Healthiness :
                        ProberSelect(e, status)
                        /\ UNCHANGED <<gatewayVars, registryVars, lbVars, adminVars, lifeVars>>)

(* the counter maps a LeastRequest strategy can hold when a request comes: *)
(* an endpoint has no entry, no request in flight or one request in flight *)
ConnectionMaps == UNION { [D -> {0, 1}] : D \in SUBSET Eps }

(* Requests on an upstream that has served requests before: its strategy   *)
(* holds counters, its checker keeps probing. Only an endpoint that was    *)
(* selected has a counter, and an endpoint of weight 0 never was.          *)
InitS ==
    /\ IdleGateway
    /\ registry = [config |-> InitConfig, router |-> EmptyRouter, upstreams |-> EmptyUpstreams]
    /\ opResult = Ok("done")
    /\ hc = [rise |-> 1, fall |-> 1, default_down |-> FALSE]
    /\ weights \in [Eps -> 0..MaxWeight]
    /\ prober = [e \in Eps |-> [pc |-> "start", sr |-> StatusRingNew(hc),
                                hist |-> <<>>, prev |-> "Up"]]
    /\ cell = [e \in Eps |-> "Up"]
    /\ fwd = NoForward
    /\ connections \in ConnectionMaps
    /\ \A e \in DOMAIN connections : weights[e] # 0
    /\ task = [t \in Tasks |-> TaskIdle]
    /\ calls = [e \in Eps |-> [sends |-> 0, dones |-> 0]]
    /\ sel = NoSelection
    /\ fw = NoForwarding
    /\ old = <<>>
    /\ IdleAdmin
    /\ IdleLife

NextS ==
    \/ \E e \in Eps : (CheckerInit(e) /\ UNCHANGED <<gatewayVars, registryVars, lbVars, adminVars, lifeVars>>)
    \/ \E e \in Eps, status \in Healthiness :
          (CheckEndpoint(e, status) /\ UNCHANGED <<gatewayVars, registryVars, lbVars, adminVars, lifeVars>>)
    \/ \E strategy \in Strategies :
          (ForwardRequest(strategy) /\ UNCHANGED <<gatewayVars, registryVars, lbVars, adminVars, lifeVars>>)

SpecSelect == InitS /\ [][NextS]_vars

IdleAll ==
    /\ IdleGateway
    /\ registry = [config |-> InitConfig, router |-> EmptyRouter, upstreams |-> EmptyUpstreams]
    /\ opResult = Ok("done")
    /\ hc = [rise |-> 2, fall |-> 3, default_down |-> FALSE]
    /\ weights = [e \in Eps |-> 1]
    /\ prober = [e \in Eps |-> [pc |-> "start", sr |-> StatusRingNew(hc),
                                hist |-> <<>>, prev |-> "Up"]]
    /\ cell = [e \in Eps |-> "Up"]
    /\ fwd = NoForward

(* Tasks forwarding through the client of one least_request upstream *)
InitLB == IdleAll /\ IdleLB /\ IdleAdmin /\ IdleLife

NextLB ==
    \/ \E t \in Tasks, e \in Eps :
          (ClientCallSend(t, e) /\ UNCHANGED <<gatewayVars, registryVars, healthVars, adminVars, lifeVars>>)
    \/ \E t \in Tasks, outcome \in ForwardOutcomes :
          (ClientCallDone(t, outcome) /\ UNCHANGED <<gatewayVars, registryVars, healthVars, adminVars, lifeVars>>)
    \/ \E t \in Tasks :
          (ClientCallCancel(t) /\ UNCHANGED <<gatewayVars, registryVars, healthVars, adminVars, lifeVars>>)

SpecLB == InitLB /\ [][NextLB]_vars

(* Tasks forwarding through the client of a least_request upstream that    *)
(* reloads replace                                                         *)
NextSwap ==
    \/ NextLB
    \/ (ReplaceStrategy /\ UNCHANGED <<gatewayVars, registryVars, healthVars, adminVars, lifeVars>>)

SpecSwap == InitLB /\ [][NextSwap]_vars

(* Connection tasks around the drain of main. A task whose select has a    *)
(* ready arm is polled: the signaled arm is weakly fair.                   *)
NextDr ==
    \/ (DrainSignal /\ UNCHANGED <<gatewayVars, registryVars, healthVars, lbVars, adminVars>>)
    \/ (DrainReturn /\ UNCHANGED <<gatewayVars, registryVars, healthVars, lbVars, adminVars>>)
    \/ \E c \in Conns :
          (Accept(c) /\ UNCHANGED <<gatewayVars, registryVars, healthVars, lbVars, adminVars>>)
    \/ \E c \in Conns :
          (RequestArrives(c) /\ UNCHANGED <<gatewayVars, registryVars, healthVars, lbVars, adminVars>>)
    \/ \E c \in Conns :
          (RequestDone(c) /\ UNCHANGED <<gatewayVars, registryVars, healthVars, lbVars, adminVars>>)
    \/ \E c \in Conns :
          (ConnClosed(c) /\ UNCHANGED <<gatewayVars, registryVars, healthVars, lbVars, adminVars>>)
    \/ \E c \in Conns :
          (ConnSignaled(c) /\ UNCHANGED <<gatewayVars, registryVars, healthVars, lbVars, adminVars>>)
    \/ \E c \in Conns :
          (ConnReleased(c) /\ UNCHANGED <<gatewayVars, registryVars, healthVars, lbVars, adminVars>>)

SpecDrain ==
    /\ InitLB
    /\ [][NextDr]_vars
    /\ \A c \in Conns :
          WF_vars(ConnSignaled(c)
                  /\ UNCHANGED <<gatewayVars, registryVars, healthVars, lbVars, adminVars>>)

(* WeightedRandom on every endpoint list and every draw of gen_range(0..W) *)
InitW ==
    /\ IdleAll
    /\ connections = NoConnections
    /\ task = [t \in Tasks |-> TaskIdle]
    /\ calls = [e \in Eps |-> [sends |-> 0, dones |-> 0]]
    /\ \E l \in EndpointLists : \E r \in 0..(TotalWeight(l, Len(l)) - 1) :
          sel = [list |-> l, random |-> r, result |-> "-"]
    /\ fw = NoForwarding
    /\ old = <<>>
    /\ IdleAdmin
    /\ IdleLife

NextW == WeightedSelect /\ UNCHANGED <<gatewayVars, registryVars, healthVars, adminVars, lifeVars>>

SpecWeighted == InitW /\ [][NextW]_vars

(* The admin API alone: requests of every method, path, cookie and body *)
InitA == IdleAll /\ IdleLB /\ IdleAdmin /\ IdleLife

NextA ==
    \E request \in AdminRequests :
        (AdminRequest(request) /\ UNCHANGED <<registryVars, healthVars, lbVars, lifeVars>>)

SpecAdmin == InitA /\ [][NextA]_vars

(* Fowarder::forward on every request line, Host header and route flag *)
InitF ==
    /\ IdleAll
    /\ IdleAdmin
    /\ IdleLife
    /\ connections = NoConnections
    /\ task = [t \in Tasks |-> TaskIdle]
    /\ calls = [e \in Eps |-> [sends |-> 0, dones |-> 0]]
    /\ sel = NoSelection
    /\ fw \in ForwardInputs
    /\ old = <<>>

NextF ==
    \/ \E endpoint \in Eps :
          (ForwardSend(endpoint) /\ UNCHANGED <<gatewayVars, registryVars, healthVars, adminVars, lifeVars>>)
    \/ \E outcome \in ForwardOutcomes :
          (ForwardDone(outcome) /\ UNCHANGED <<gatewayVars, registryVars, healthVars, adminVars, lifeVars>>)

SpecForward == InitF /\ [][NextF]_vars

----------------------------------------------------------------------------
(* Claims about the registry snapshots a request holds                     *)

Holding(r) == req[r].pc \in {"find_route", "dispatch", "done"}

(* C1: the router and the upstream map a request works with come from one  *)
(* and the same registry build.                                            *)
C1_SingleBuild ==
    \A r \in ReqIds :
        Holding(r) =>
            \E b \in 1..Len(builds) :
                /\ builds[b].router = builds[req[r].router].router
                /\ builds[b].upstreams = builds[req[r].upstreams].upstreams

(* cfg builds: SharedData::reload would publish it *)
Buildable(cfg) == BuildRouter(cfg).ok /\ BuildUpstreamMap(cfg).ok

(* C4: an admin add-route or update-route call whose route makes the       *)
(* rebuild fail is answered with an error and leaves the stored config as  *)
(* it was.                                                                 *)
C4_RejectedRouteLeavesConfig ==
    [][\A route \in RouteInputs :
          /\ (~HasId(config.routes, route.id)
                 /\ ~Buildable([config EXCEPT !.routes = Append(@, route)])
                 /\ RouteApiAdd(route))
                => (config' = config /\ admin'.resp # "ok")
          /\ (HasId(config.routes, route.id)
                 /\ ~Buildable([config EXCEPT !.routes = ReplaceById(@, route)])
                 /\ RouteApiUpdate(route))
                => (config' = config /\ admin'.resp # "ok")]_vars

(* the node of the router the request holds that its path hits *)
NodeOf(r) == Recognize(builds[req[r].router].router, req[r].request.path)

(* C8: the route a request is dispatched on is the first route of the      *)
(* node's list that matches it, and no route of the node with a higher     *)
(* priority matches the request.                                           *)
C8_FirstMatchWins ==
    \A r \in ReqIds :
        req[r].pc \in {"dispatch", "done"} /\ req[r].status # 404 =>
            /\ NodeOf(r).ok
            /\ \E i \in 1..Len(NodeOf(r).val) :
                  /\ NodeOf(r).val[i] = req[r].route
                  /\ Matchs(req[r].route.matcher, req[r].request)
                  /\ \A j \in 1..(i - 1) : ~Matchs(NodeOf(r).val[j].matcher, req[r].request)
            /\ \A j \in 1..Len(NodeOf(r).val) :
                  NodeOf(r).val[j].priority > req[r].route.priority
                      => ~Matchs(NodeOf(r).val[j].matcher, req[r].request)

(* the priority-100 route with Query('name','tom') and a priority-0 route  *)
(* share the node: ?name=bob has been dispatched on the priority-0 route   *)
C8_Witness ==
    \E r \in ReqIds :
        /\ req[r].pc = "done"
        /\ req[r].status # 404
        /\ req[r].request = [path |-> "/hello", query |-> << <<"name", "bob">> >>]
        /\ req[r].route.priority = 0
        /\ \E j \in 1..Len(NodeOf(r).val) :
              /\ NodeOf(r).val[j].priority = 100
              /\ NodeOf(r).val[j].matcher.kind = "Query"

----------------------------------------------------------------------------
(* Claims about the Registry                                               *)

RouterLists == { registry.router[p] : p \in DOMAIN registry.router }

(* C2: every route held by the router names an upstream that is a key of   *)
(* the upstream map of the same Registry.                                  *)
C2_RoutesResolve ==
    \A l \in RouterLists : \A i \in 1..Len(l) :
        l[i].upstream_id \in DOMAIN registry.upstreams

(* the configs whose router or upstream map does not build *)
FailingConfigs == { cfg \in ConfigInputs : ~Buildable(cfg) }

(* C3: a reload that fails while building the router or the upstream map   *)
(* leaves router, upstream map and stored config as they were, and         *)
(* returns the error of the build step that failed.                        *)
C3_FailedReloadKeepsRegistry ==
    [][\A cfg \in FailingConfigs :
          Reload(cfg)
              => /\ registry' = registry
                 /\ ~opResult'.ok
                 /\ opResult'.op = "reload"
                 /\ opResult'.err \in {"UpstreamNotFound", "MatcherParse", "UnknownLBStrategy"}]_vars

(* a reload has failed on an unknown strategy name, after the router of    *)
(* the same document had built, on a Registry that holds routes            *)
C3_Witness ==
    /\ opResult = [ok |-> FALSE, err |-> "UnknownLBStrategy", op |-> "reload"]
    /\ \E l \in RouterLists : l # <<>>
    /\ registry.config # InitConfig

(* C9: the route list of every URI pattern of the router is ordered by     *)
(* priority, highest first.                                                *)
C9_ListsSortedByPriority ==
    \A l \in RouterLists : \A i, j \in 1..Len(l) : i < j => l[i].priority >= l[j].priority

(* a list holds routes of different priorities, and routes have been       *)
(* added and deleted since the last build                                  *)
C9_Witness ==
    /\ \E l \in RouterLists : \E i, j \in 1..Len(l) : l[i].priority > l[j].priority
    /\ \A r \in BuildRouter(registry.config).val : r # registry.router

(* C10: within one list, routes of equal priority stand in the order in    *)
(* which they were inserted.                                               *)
C10_TiesInInsertionOrder ==
    \A l \in RouterLists : \A i, j \in 1..Len(l) :
        i < j /\ l[i].priority = l[j].priority => l[i].seq < l[j].seq

----------------------------------------------------------------------------
(* Claims about the health checker and the endpoint selection              *)

(* the n most recent outcomes of h exist and all equal v *)
LastAll(h, n, v) == Len(h) >= n /\ \A k \in 1..n : h[Len(h) + 1 - k] = v

(* C5: after an outcome is appended the aggregated state is Up if the      *)
(* last rise outcomes are all Up, Down if the last fall outcomes are all   *)
(* Down, and what it was before otherwise.                                 *)
C5_RiseFallAggregation ==
    \A e \in Eps :
        prober[e].hist # <<>> /\ hc.rise >= 1 /\ hc.fall >= 1 =>
            prober[e].sr.status =
                IF LastAll(prober[e].hist, hc.rise, "Up") THEN "Up"
                ELSE IF LastAll(prober[e].hist, hc.fall, "Down") THEN "Down"
                ELSE prober[e].prev

(* C6: a probe round turns an endpoint's cell from Up to Down only when    *)
(* the last fall outcomes are all failures, and from Down to Up only when  *)
(* the last rise outcomes are all successes.                               *)
C6_Hysteresis ==
    [][\A e \in Eps :
          prober[e].pc = "loop" =>
              /\ (cell[e] = "Up" /\ cell'[e] = "Down")
                     => LastAll(prober'[e].hist, hc.fall, "Down")
              /\ (cell[e] = "Down" /\ cell'[e] = "Up")
                     => LastAll(prober'[e].hist, hc.rise, "Up")]_vars

(* C7: when every endpoint of weight > 0 reads Down and there is one, the  *)
(* request is still forwarded, to an endpoint of weight > 0.               *)
C7_FallbackToAllEndpoints ==
    ( /\ fwd.outcome # "none"
      /\ \E e \in Eps : weights[e] > 0
      /\ \A e \in Eps : weights[e] > 0 => fwd.seen[e] = "Down" )
        => (fwd.outcome = "forwarded" /\ weights[fwd.endpoint] > 0)

----------------------------------------------------------------------------
(* Claims about the dispatch of one request                                *)

(* the upstream map the request holds *)
UpstreamsOf(r) == builds[req[r].upstreams].upstreams

(* the upstream the request was forwarded through has no endpoint *)
NoEndpoint(r) ==
    \E k \in DOMAIN UpstreamsOf(r) :
        UpstreamsOf(r)[k].id = req[r].via /\ UpstreamsOf(r)[k].endpoints = <<>>

(* C11: a request whose upstream id after on_access is not a key of the    *)
(* upstream map, or whose upstream has no endpoint to select, is answered  *)
(* 503 and nothing is forwarded.                                           *)
C11_Unavailable503 ==
    \A r \in ReqIds :
        req[r].pc = "done" /\ (req[r].via = "unavailable" \/ NoEndpoint(r))
            => (req[r].status = 503 /\ req[r].forwards = 0)

(* some route of the pattern node the path hits matches the request *)
SomeRouteMatches(router, request) ==
    \E p \in DOMAIN router :
        /\ PatternHits(p, request.path)
        /\ \E i \in 1..Len(router[p]) : Matchs(router[p][i].matcher, request)

(* C12: a request is answered 404 with no plugin invoked and nothing       *)
(* forwarded exactly when no pattern of the router matches its path or no  *)
(* route of the matched pattern matches the request.                       *)
C12_NotFoundIffNoMatch ==
    \A r \in ReqIds :
        req[r].pc = "done" =>
            ( (req[r].status = 404 /\ req[r].accessed = <<>> /\ req[r].forwards = 0)
              <=> ~SomeRouteMatches(builds[req[r].router].router, req[r].request) )

(* a path that hits a pattern whose only route asks for ?name=tom was      *)
(* answered 404                                                            *)
C12_Witness ==
    \E r \in ReqIds :
        /\ req[r].pc = "done"
        /\ req[r].status = 404
        /\ req[r].forwards = 0
        /\ Recognize(builds[req[r].router].router, req[r].request.path).ok
        /\ req[r].request.query = << <<"name", "bob">> >>

Kinds(plugins) == [i \in 1..Len(plugins) |-> plugins[i].kind]

(* C14: when the on_access of a plugin answers with a response, no later   *)
(* plugin's on_access runs, nothing is forwarded, no after_forward runs    *)
(* and the client receives that response.                                  *)
C14_ShortCircuitStops ==
    \A r \in ReqIds :
        LET plugins == req[r].route.plugins IN
        \A i \in 1..Len(plugins) :
            ( /\ req[r].pc = "done"
              /\ plugins[i].kind = "script"
              /\ Matchs(plugins[i].deny, req[r].request) )
                => /\ req[r].accessed = SubSeq(Kinds(plugins), 1, i)
                   /\ req[r].forwards = 0
                   /\ req[r].after = <<>>
                   /\ req[r].via = "short"
                   /\ req[r].status = 403

(* the script of a route with three plugins has answered the request *)
C14_Witness ==
    \E r \in ReqIds :
        /\ req[r].pc = "done"
        /\ req[r].via = "short"
        /\ Len(req[r].route.plugins) = 3
        /\ req[r].accessed = <<"script">>

(* the route document of the stored config that a route was built from *)
RouteConfigOf(route) ==
    CHOOSE c \in { config.routes[i] : i \in 1..Len(config.routes) } : c.id = route.id

(* Plugin::priority of the plugin of a type among the plugins of a route *)
PriorityOf(plugins, kind) ==
    (CHOOSE x \in { plugins[i] : i \in 1..Len(plugins) } : x.kind = kind).priority

C16_AfterForwardInOrder ==
    \A r \in ReqIds :
        (req[r].pc = "done" /\ req[r].forwards > 0) =>
            /\ req[r].after = Kinds(req[r].route.plugins)
            /\ req[r].after = req[r].accessed

(* the response of a forward has gone through the three plugins in order *)
C16_Witness ==
    \E r \in ReqIds :
        /\ req[r].pc = "done"
        /\ req[r].forwards = 1
        /\ req[r].after = <<"script", "path_rewrite", "traffic_split">>

(* the upstream a list of traffic-split rules names for a request: that of *)
(* the rule of least index that matches, the default when none does        *)
FirstRuleOr(rules, request, default) ==
    LET hits == { i \in 1..Len(rules) : Matchs(rules[i].matcher, request) } IN
    IF hits = {} THEN default
    ELSE rules[CHOOSE i \in hits : \A j \in hits : i <= j].upstream_id

(* C17: with a TrafficSplit plugin on the route, the upstream looked up    *)
(* for a request is the upstream_id of the first rule in list order that   *)
(* matches the request, the route's own upstream_id when no rule matches,  *)
(* and a forward goes through that upstream.                               *)
C17_TrafficSplitFirstRule ==
    \A r \in ReqIds :
        LET plugins == req[r].route.plugins IN
        \A i \in 1..Len(plugins) :
            ( /\ req[r].pc = "done"
              /\ req[r].via # "short"
              /\ plugins[i].kind = "traffic_split" )
                => LET expect == FirstRuleOr(plugins[i].rules, req[r].request,
                                             req[r].route.upstream_id)
                   IN  /\ req[r].upstream_id = expect
                       /\ req[r].forwards > 0 => req[r].via = expect

(* the in-flight counter LeastRequest holds for an endpoint *)
InFlightCount(e) == IF e \in DOMAIN connections THEN connections[e] ELSE 0

(* the tasks awaiting their forward to an endpoint *)
Awaiting(e) == { t \in Tasks : task[t].pc = "await" /\ task[t].endpoint = e }

(* C18: with LeastRequest, whenever every endpoint has received as many    *)
(* on_request_done calls as on_send_request calls, whatever the            *)
(* interleaving of the tasks that made them, every in-flight counter is 0. *)
C18_CountersReturnToZero ==
    (\A e \in Eps : calls[e].sends = calls[e].dones)
        => \A e \in DOMAIN connections : connections[e] = 0

(* both endpoints have been sent to and completed, each task has made all  *)
(* its calls, and the calls net to zero                                    *)
C18_Witness ==
    /\ \A e \in Eps : calls[e].sends = calls[e].dones /\ calls[e].sends >= 1
    /\ \A t \in Tasks : task[t].n = MaxCalls /\ task[t].last \in {"ok", "error"}
    /\ DOMAIN connections = Eps

(* C19: every on_send_request for an endpoint is followed by exactly one   *)
(* on_request_done for it, whether the forward succeeds, fails or the task *)
(* is cancelled while it awaits the forward: the in-flight counter of an   *)
(* endpoint counts exactly the tasks still awaiting a forward to it.       *)
C19_OnDoneAlwaysFollows ==
    \A e \in Eps :
        /\ InFlightCount(e) = Cardinality(Awaiting(e))
        /\ calls[e].sends = calls[e].dones + Cardinality(Awaiting(e))

(* C20: WeightedRandom, for a list of total weight W > 0 and a draw r in   *)
(* 0..W-1, returns the first endpoint in list order whose cumulative       *)
(* weight exceeds r: a member of the list, never the fall-through behind   *)
(* the loop, and fixed by the list and the draw.                           *)
C20_FirstCumulativeAboveDraw ==
    sel.result # "-" =>
        /\ sel.result # "unreachable!"
        /\ \E i \in 1..Len(sel.list) :
              /\ sel.result = sel.list[i].addr
              /\ TotalWeight(sel.list, i) > sel.random
              /\ \A j \in 1..(i - 1) : TotalWeight(sel.list, j) <= sel.random

(* the draw equals the weight of the first endpoint, the second endpoint   *)
(* has weight 0, and the third endpoint was returned                       *)
C20_Witness ==
    /\ sel.result = "c:5000"
    /\ sel.list[1].weight > 0
    /\ sel.list[2].weight = 0
    /\ sel.random = sel.list[1].weight

----------------------------------------------------------------------------
(* Claims about endpoint selection                                         *)

WeightSum(upstream) ==
    LET RECURSIVE Sum(_)
        Sum(i) == IF i = 0 THEN 0 ELSE upstream.endpoints[i].weight + Sum(i - 1)
    IN  Sum(Len(upstream.endpoints))

(* C22: an upstream with strategy weighted whose endpoint weights sum to 0 *)
(* is rejected when it is built, on reload and on add: no upstream of the  *)
(* registry is weighted with total weight 0.                               *)
C22_WeightedNeedsPositiveSum ==
    \A k \in DOMAIN registry.upstreams :
        registry.upstreams[k].strategy = "weighted" => WeightSum(registry.upstreams[k]) > 0

----------------------------------------------------------------------------
(* Claims about the admin API                                              *)

(* C23: a request to an admin endpoint other than login that carries no    *)
(* sid cookie, or a sid the session store does not hold, is answered 401   *)
(* and no handler runs: no route or upstream data is returned and the      *)
(* config, the pending notification and the session store stay as they are *)
C23_UnauthorizedWithoutSession ==
    [][ ( /\ <<areq'.request.method, areq'.request.path>> \in AdminEndpoints
          /\ areq'.request.path # "/api/session/login"
          /\ areq'.request.cookie = NoCookie \/ areq'.request.cookie \notin sessions )
        => ( /\ areq'.status = 401
             /\ areq'.handler = "none"
             /\ areq'.data = <<>>
             /\ config' = config
             /\ notify' = notify
             /\ sessions' = sessions ) ]_vars

(* POST /api/routes with a sid the store does not hold was answered 401 *)
C23_Witness ==
    /\ areq.request.method = "POST"
    /\ areq.request.path = "/api/routes"
    /\ areq.request.cookie = "s1"
    /\ areq.request.body.id = "r2"
    /\ areq.status = 401
    /\ config = InitConfig

(* C24: POST /api/session/login is served to a client without a session:   *)
(* with the credentials of the admin it answers 200, stores a new session  *)
(* id and sets it as the sid cookie; with other credentials it answers 401 *)
(* and stores nothing.                                                     *)
C24_LoginServed ==
    (areq.request.method = "POST" /\ areq.request.path = "/api/session/login") =>
        IF areq.request.body = [username |-> "admin", password |-> "admin"]
        THEN /\ areq.status = 200
             /\ areq.handler = "SessionApi::login"
             /\ areq.set_cookie \in sessions
        ELSE /\ areq.status = 401
             /\ areq.set_cookie = NoCookie
             /\ sessions = {}

----------------------------------------------------------------------------
(* Claims about reloading                                                  *)

(* the published router and upstream map are a build of cfg *)
Published(cfg) ==
    /\ builds[sd_router].router \in BuildRouter(cfg).val
    /\ builds[sd_upstreams].upstreams = BuildUpstreamMap(cfg).val

EligibleEndpoints(upstream) ==
    { upstream.endpoints[i].addr : i \in { j \in 1..Len(upstream.endpoints) :
          upstream.endpoints[j].weight # 0 /\ upstream.health[j] = "Up" } }

(* what a client can observe of a registry: for every request the route    *)
(* it is dispatched on, the upstream of that route and the endpoints the   *)
(* request may be forwarded to                                             *)
Routing(reg) ==
    [request \in Requests |->
        LET route == FindRoute(reg.router, request) IN
        IF ~route.ok THEN <<"not_found">>
        ELSE IF route.val.upstream_id \notin DOMAIN reg.upstreams
             THEN <<route.val.id, route.val.upstream_id, "unavailable">>
             ELSE <<route.val.id, route.val.upstream_id,
                    EligibleEndpoints(reg.upstreams[route.val.upstream_id])>>]

(* C26: a reload with the config that is in effect changes nothing a       *)
(* client can observe: every request is routed to the same route, the same *)
(* upstream and the same eligible endpoints as before, the endpoint health *)
(* the checker had established included.                                   *)
C26_ReloadSameConfigIsNoOp ==
    [][ Reload(registry.config) => Routing(registry') = Routing(registry) ]_vars

----------------------------------------------------------------------------
(* Claims about the forwarded request                                      *)

(* C27: when the route has overwrite_host set, the Host header of the      *)
(* forwarded request is the host of the endpoint selected for the request; *)
(* when it is not set, it is the Host header the client sent.              *)
C27_HostHeader ==
    /\ fw.stage # "panic"
    /\ fw.stage \in {"await", "done"} =>
          fw.sent_host = IF fw.overwrite_host THEN EndpointHost(fw.endpoint) ELSE fw.host

(* C28: a PathRewrite plugin changes only the path of the outbound request: *)
(* a forwarded request that went through a PathRewrite plugin carries the  *)
(* query string the client sent, Keep leaves the request as it was, and    *)
(* the rules of a TrafficSplit plugin of the same route are evaluated      *)
(* against the request the client sent, so the upstream used is the one    *)
(* those rules give for the client's path.                                 *)
C28_RewriteOnlyOutboundPath ==
    \A r \in ReqIds :
        (req[r].pc = "done" /\ req[r].forwards = 1) =>
            LET plugins == req[r].route.plugins IN
            \A i \in 1..Len(plugins) :
                plugins[i].kind = "path_rewrite" =>
                    /\ req[r].sent.query = req[r].request.query
                    /\ plugins[i].rewrite.kind = "Keep" => req[r].sent = req[r].request
                    /\ \A j \in 1..Len(plugins) :
                          plugins[j].kind = "traffic_split" =>
                              LET u == TrafficSplitSelect(plugins[j].rules, req[r].request)
                              IN  req[r].upstream_id =
                                     IF u.ok THEN u.val ELSE req[r].route.upstream_id

----------------------------------------------------------------------------
(* Claims about LeastRequest                                               *)

(* the list the strategy was given for the last request: the endpoints     *)
(* heathy_endpoints kept                                                   *)
GivenList ==
    LET list == HeathyEndpoints(weights, fwd.seen) IN { list[i] : i \in 1..Len(list) }

LeastRequestAsked ==
    /\ fwd.strategy = "least_request"
    /\ fwd.outcome \in {"forwarded", "panic"}

(* C29: when every endpoint of the given list has a counter entry,         *)
(* LeastRequest returns an endpoint of the list whose in-flight counter is *)
(* minimal among the endpoints of the list.                                *)
C29_LeastAmongGivenList ==
    (LeastRequestAsked /\ GivenList \subseteq DOMAIN connections) =>
        /\ fwd.outcome = "forwarded"
        /\ fwd.endpoint \in GivenList
        /\ \A e \in GivenList : connections[fwd.endpoint] <= connections[e]

(* C30: when at least one endpoint of the given list has no counter entry, *)
(* LeastRequest returns one of the endpoints of the list that have none,   *)
(* however many entries the counter map holds.                             *)
C30_UnusedEndpointFirst ==
    (LeastRequestAsked /\ GivenList \ DOMAIN connections # {}) =>
        /\ fwd.outcome = "forwarded"
        /\ fwd.endpoint \in GivenList \ DOMAIN connections

----------------------------------------------------------------------------
(* Claims about the status ring and the life of a prober                   *)

(* the k most recent outcomes of a history, in arrival order *)
LastOutcomes(hist, k) == SubSeq(hist, Len(hist) - k + 1, Len(hist))

(* C31: after n probe outcomes have been appended, the status ring holds   *)
(* exactly the most recent min(n, rise + fall) outcomes in arrival order.  *)
C31_RingHoldsLastOutcomes ==
    \A e \in Eps :
        LET n == Len(prober[e].hist)
            k == IF n < hc.rise + hc.fall THEN n ELSE hc.rise + hc.fall
        IN  prober[e].sr.ring = LastOutcomes(prober[e].hist, k)

(* C32: as long as no shutdown signal has been raised, a started prober    *)
(* keeps running its loop and never exits on its own.                      *)
C32_ProberRunsUntilShutdown ==
    drain.pc = "running" => \A e \in Eps : prober[e].pc # "stopped"

Stopped(e) == prober[e].pc = "stopped"

(* C33: after the shutdown signal is raised, every endpoint prober         *)
(* eventually stops for good, and a stopped prober issues no probe and     *)
(* writes the endpoint's health cell no more.                              *)
C33_ProbersStopAfterShutdown ==
    /\ [](drain.pc # "running" => <>[](\A e \in Eps : Stopped(e)))
    /\ [][\A e \in Eps : Stopped(e) =>
              /\ Stopped(e)'
              /\ cell'[e] = cell[e]
              /\ prober'[e].hist = prober[e].hist]_vars

(* a prober that was still in its loop when the signal was raised has      *)
(* stopped                                                                 *)
C33_Witness ==
    /\ drain.pc = "draining"
    /\ \E e \in drain.probing : Stopped(e)

----------------------------------------------------------------------------
(* Claims about the drain                                                  *)

(* C34: after the drain signal every connection task starts a graceful     *)
(* shutdown of its connection (or has ended), a connection shut down       *)
(* gracefully is released with no request in flight on it, and drain       *)
(* returns only when no connection task holds a drain watch any more.      *)
C34_GracefulDrain ==
    /\ [](drain.pc = "draining" => <>(\A c \in Conns : conn[c].pc # "serving"))
    /\ [](\A c \in Conns : conn[c].end = "released" => ~conn[c].inflight)
    /\ [](drain.pc = "returned" => \A c \in Conns : conn[c].pc \in {"none", "done"})

(* drain has returned after a connection that had a request in flight when *)
(* it was signalled served it and released its handle                      *)
C34_Witness ==
    /\ drain.pc = "returned"
    /\ \E c \in Conns :
          /\ conn[c].end = "released"
          /\ conn[c].grace_inflight
          /\ conn[c].served = 1

----------------------------------------------------------------------------
(* Claims about the ids of the stored config                               *)

IdsOf(list) == [i \in 1..Len(list) |-> list[i].id]
DistinctIds(list) == \A i, j \in 1..Len(list) : list[i].id = list[j].id => i = j

(* C35: the route ids and the upstream ids of the stored config stay       *)
(* pairwise distinct under admin add and update calls; a call answered     *)
(* with an error leaves the config as it was and raises no notification;   *)
(* an update leaves the ids of every list where they were.                 *)
C35_IdsStayDistinct ==
    /\ [](DistinctIds(config.routes) /\ DistinctIds(config.upstreams))
    /\ [][(admin' # admin /\ admin'.resp # "ok") =>
              (config' = config /\ notify' = notify)]_vars
    /\ [][((\E route \in RouteInputs : RouteApiUpdate(route))
            \/ (\E upstream \in UpstreamInputs : UpstreamApiUpdate(upstream))) =>
              /\ IdsOf(config'.routes) = IdsOf(config.routes)
              /\ IdsOf(config'.upstreams) = IdsOf(config.upstreams)]_vars

(* a route add with an id already present was rejected after another add,  *)
(* and the permit of the accepted one has been consumed by the rebuild     *)
C35_Witness ==
    /\ admin.resp = "Route Id exist"
    /\ Len(config.routes) > Len(InitConfig.routes)
    /\ ~notify

(* C36: after any sequence of Registry operations the registry's router    *)
(* and upstream map are what a build from the registry's stored config     *)
(* gives.                                                                  *)
C36_RegistryIsBuildOfConfig ==
    LET router == BuildRouter(registry.config)
        upstreams == BuildUpstreamMap(registry.config)
    IN  /\ router.ok /\ registry.router \in router.val
        /\ upstreams.ok /\ registry.upstreams = upstreams.val

(* C37: LeastRequest select_endpoint returns an endpoint of the given      *)
(* non-empty list whatever the counter map holds, entries of endpoints     *)
(* that are not in the list included: it never panics.                     *)
C37_LeastRequestAlwaysSelects ==
    (LeastRequestAsked /\ GivenList # {}) =>
        /\ fwd.outcome = "forwarded"
        /\ fwd.endpoint \in GivenList

----------------------------------------------------------------------------
(* Claims about the counters across a reload                               *)

(* the tasks that await a forward to e made through strategy instance k:   *)
(* 0 is the strategy in use, k > 0 the k-th one replaced                   *)
AwaitingOn(k, e) ==
    { t \in Tasks : task[t].pc = "await" /\ task[t].inst = k /\ task[t].endpoint = e }

(* C38: no LeastRequest counter goes below zero: on every strategy         *)
(* instance, the one in use and those a reload has replaced, the counter   *)
(* of an endpoint is at least the number of forwards to it that are        *)
(* awaited through that instance.                                          *)
C38_CounterNeverBelowZero ==
    /\ \A e \in DOMAIN connections :
          connections[e] >= 0 /\ connections[e] >= Cardinality(AwaitingOn(0, e))
    /\ \A k \in 1..Len(old) : \A e \in DOMAIN old[k] :
          old[k][e] >= 0 /\ old[k][e] >= Cardinality(AwaitingOn(k, e))
    /\ \A t \in Tasks : task[t].pc = "await" =>
          task[t].endpoint \in
              DOMAIN (IF task[t].inst = 0 THEN connections ELSE old[task[t].inst])

(* a forward that was in flight when a reload replaced the strategy has    *)
(* completed and brought the counter of the replaced strategy back to 0    *)
C38_Witness ==
    \E t \in Tasks :
        /\ task[t].pc = "idle"
        /\ task[t].inst > 0
        /\ task[t].last \in {"ok", "error"}
        /\ old[task[t].inst][task[t].endpoint] = 0

----------------------------------------------------------------------------
(* Claims about ending a session                                           *)

(* C39: after a logout request that carries a sid the session store does   *)
(* not hold that sid, so that AuthMiddleware answers 401 to every request  *)
(* that carries it, and every other session id of the store stays; the     *)
(* login with the credentials of the admin that follows a logout answers   *)
(* 200 and stores and sets a session id the store did not hold.            *)
C39_LogoutEndsSession ==
    [][ /\ ( /\ areq'.request.method = "POST"
             /\ areq'.request.path = "/api/session/logout"
             /\ areq'.request.cookie # NoCookie )
           => ( /\ areq'.request.cookie \notin sessions'
                /\ \A r \in AdminRequests :
                      (r.path # LoginPath /\ r.cookie = areq'.request.cookie)
                          => AuthMiddlewareHandle(sessions', r) = "unauthorized"
                /\ sessions' \ {areq'.request.cookie} = sessions \ {areq'.request.cookie} )
        /\ ( /\ areq.request.path = "/api/session/logout"
             /\ areq.request.cookie # NoCookie
             /\ areq'.request.method = "POST"
             /\ areq'.request.path = "/api/session/login"
             /\ areq'.request.body = [username |-> "admin", password |-> "admin"] )
           => ( /\ areq'.status = 200
                /\ areq'.set_cookie \notin sessions
                /\ areq'.set_cookie \in sessions' ) ]_vars

====
